---------------------------- MODULE Spec2Model ----------------------------
(***************************************************************************)
(* Daycare registry of the CodeGrinder TA (registration, expiry, weighted  *)
(* assignment), the registry's locking discipline under concurrent         *)
(* requests, and the registration loop of a daycare worker.                *)
(*                                                                         *)
(* Time is an integer number of ticks; one second is TicksPerSecond ticks, *)
(* so sub-second parts of a time.Time are representable.                   *)
(***************************************************************************)
EXTENDS Integers, Sequences, FiniteSets, TLC

(* ------------------------------ bounds --------------------------------- *)

\* resolution of the clock: ticks per second
TicksPerSecond == 2

\* largest capacity a daycare is configured with
MaxCapacity == 3

\* the TA clock runs up to two registration-expiry steps plus this many ticks
ClockSlack == 2
\* requests that pass through the counter middleware
MaxRequests == 2
\* execs of a staged action
MaxSteps == 2

\* print_set is called with every set whose bits lie below this position
MaxSetBits == 10

(* --------------------------- program constants ------------------------- *)

Second == TicksPerSecond
Minute == 60 * Second

\* const daycareRegistrationInterval = 10 * time.Second
daycareRegistrationInterval == 10 * Second

\* CurrentVersion.Version
CurrentVersion == "1.9.6"
OldVersion == "1.9.5"

\* Config.DaycareSecret of the TA, and a secret the TA does not hold
DaycareSecret == "secret"
OtherSecret == "other"

Hosts == {"A", "B", "C"}

\* problem type names, listed in increasing string order
SortedNames == <<"gounittest", "python27unittest", "python34unittest", "unknownType">>
ProblemTypeNames == {SortedNames[i] : i \in 1..Len(SortedNames)}

\* the zero values of Go strings that the model distinguishes
EmptyString == ""

(* ------------------------------ helpers -------------------------------- *)

Abs(x) == IF x < 0 THEN -x ELSE x

Range(s) == {s[i] : i \in 1..Len(s)}

\* position of a problem type name in string order
Rank(s) == CHOOSE i \in 1..Len(SortedNames) : SortedNames[i] = s

\* Go's s < t on the strings of the model
StrLess(s, t) == Rank(s) < Rank(t)

RECURSIVE InsertSorted(_, _)
InsertSorted(x, s) ==
    IF s = <<>> THEN <<x>>
    ELSE IF StrLess(x, Head(s)) THEN <<x>> \o s
    ELSE <<Head(s)>> \o InsertSorted(x, Tail(s))

\* sort.Strings: ascending order, duplicates kept
RECURSIVE SortStrings(_)
SortStrings(s) ==
    IF s = <<>> THEN <<>>
    ELSE InsertSorted(Head(s), SortStrings(Tail(s)))

\* a binary search that moves right on equal elements (an upper bound)
RECURSIVE SearchFrom_UpperBound(_, _, _, _)
SearchFrom_UpperBound(a, x, lo, hi) ==
    IF lo < hi
    THEN LET h == (lo + hi) \div 2
         IN  IF ~StrLess(x, a[h + 1])
             THEN SearchFrom_UpperBound(a, x, h + 1, hi)
             ELSE SearchFrom_UpperBound(a, x, lo, h)
    ELSE lo

\* sort.SearchStrings(a, x): binary search for the smallest 0-based index i
\* with a[i] >= x, Len(a) if there is none (a is assumed sorted)
RECURSIVE SearchFrom(_, _, _, _)
SearchFrom(a, x, lo, hi) ==
    IF lo < hi
    THEN LET h == (lo + hi) \div 2
         IN  IF StrLess(a[h + 1], x)
             THEN SearchFrom(a, x, h + 1, hi)
             ELSE SearchFrom(a, x, lo, h)
    ELSE lo

SearchStrings(a, x) == SearchFrom(a, x, 0, Len(a))

\* t.Round(time.Second): nearest whole second, halfway values round up
RoundSecond(t) == ((2 * t + Second) \div (2 * Second)) * Second

\* a signature over the problem types in the order they are listed
ComputeSignature_Unsorted(reg, secret) ==
    <<secret, reg.Hostname, reg.ProblemTypes, reg.Capacity,
      RoundSecond(reg.Time), reg.Version>>

\* a signature that does not depend on the secret
ComputeSignature_NoSecret(reg, secret) ==
    <<EmptyString, reg.Hostname, SortStrings(reg.ProblemTypes), reg.Capacity,
      RoundSecond(reg.Time), reg.Version>>

\* reg.ComputeSignature(secret): the HMAC is modelled by its key and its
\* message, the canonical form of the registration
ComputeSignature(reg, secret) ==
    << secret,
       reg.Hostname,
       SortStrings(reg.ProblemTypes),
       reg.Capacity,
       RoundSecond(reg.Time),
       reg.Version >>

\* the registration as ComputeSignature leaves it: the list sorted in place
AfterComputeSignature(reg) ==
    [reg EXCEPT !.ProblemTypes = SortStrings(reg.ProblemTypes)]


(* --------------------------- registry state ---------------------------- *)

VARIABLES
    now,            \* the TA's clock (time.Now()), in ticks
    daycares,       \* daycareRegistrations.daycares: hostname -> registration
    ret,            \* what the last operation was given and what it returned
    lastAccepted,   \* history: per hostname, the entry stored by the last accepted Insert
    lock,           \* daycareRegistrations.Mutex: the task holding it, or NoTask
    pc,             \* per request task: its position in its handler
    req,            \* per request task: the request it is handling
    wconf,          \* the daycare process: its Config and role flags
    wrole,          \* the daycare process: "setup", "running", or "fatal" after log.Fatalf
    wpc,            \* the daycare's registration goroutine: its position
    wreg,           \* the registration the goroutine built last
    wstatus,        \* the goroutine's status variable
    wslept,         \* the time at which the goroutine started its current sleep
    wcount,         \* history: number of registrations the goroutine has built
    metrics,        \* the package variables hits, slowest and totalSeconds
    expvars,        \* the published expvar counters
    cpc,            \* per request task: its position in the counter middleware
    clocal,         \* per request task: the locals of the counter middleware
    cfinished,      \* history: requests that left the middleware, and their durations
    gpc,            \* the grade command: its position in CommandGrade
    gbundles,       \* the grade command: unsigned, signed, graded and saved
    glog,           \* history: the requests the grade command has sent, in order
    gresult,        \* the grade command: what it decided on
    spc,            \* the worker's session: its state
    sinput,         \* the session: the first frame it received
    sbox,           \* the session's container: "none", "created" or "destroyed"
    sdestroys,      \* history: the number of Destroy() calls on the container
    sframes,        \* the frames the server emitted: on the wire, and in the transcript
    sstep,          \* the session: the number of the step last started
    sclose,         \* the session: how it ended, and the server's close code
    tables,         \* the database: the tables problem_types and problem_type_actions
    tnext,          \* the setup script: the number of the next statement
    tconfig,        \* the row a session was last configured from
    cregs,          \* call_function: the registers ra, sp, gp, tp, a0, t0, s0..s11
    cmem,           \* call_function: the stack, by address
    csaved,         \* call_function: the word saved_sp
    cfpc,           \* call_function: the position of the program
    cfout,          \* call_function: what was written to stderr, and the exit status
    cfhist,         \* history: the registers at the call, at target's entry and return
    rpc,            \* the TA's request pipeline: "idle", "running" or "done"
    rreq,           \* the request being served: route, session, user record
    ridx,           \* martini's context.index: the next handler of the route's chain
    rstatus,        \* the response status written, 0 while nothing is written
    rtx,            \* the request's transaction, and what withTx saw and awaits
    rlog,           \* history: the handlers and transaction calls that ran, in order
    gdisk,          \* the grade command's directory: the files and the dotfile
    gdisk0,         \* history: the directory as gather found it
    gloop,          \* the grade command: the steps fetched and the files still to do
    gops,           \* history: the file operations of the grade command, in order
    ppc,            \* print_set and print_n: the position of the program
    pregs,          \* the registers a0, a1, a2 and sp
    pmem,           \* the stack of print_set and print_n, by address
    pout            \* history: the write system calls made, and the exit status

regVars == <<now, daycares, ret, lastAccepted>>
taskVars == <<lock, pc, req>>
workerVars == <<wconf, wrole, wpc, wreg, wstatus, wslept, wcount>>
counterVars == <<metrics, expvars, cpc, clocal, cfinished>>
gradeVars == <<gpc, gbundles, glog, gresult>>
sessionVars == <<spc, sinput, sbox, sdestroys, sframes, sstep, sclose>>
tableVars == <<tables, tnext, tconfig>>
callVars == <<cregs, cmem, csaved, cfpc, cfout, cfhist>>
requestVars == <<rpc, rreq, ridx, rstatus, rtx, rlog>>
advanceVars == <<gdisk, gdisk0, gloop, gops>>
printVars == <<ppc, pregs, pmem, pout>>
extVars == <<counterVars, gradeVars, sessionVars, tableVars, callVars,
             requestVars, advanceVars, printVars>>
vars == <<regVars, taskVars, workerVars, extVars>>

\* the clock starts late enough for every time of the model to be positive
Epoch == 100 * Second
MaxNow == Epoch + 2 * daycareRegistrationInterval + ClockSlack

NoReg == [Hostname |-> EmptyString, ProblemTypes |-> <<>>, Capacity |-> 0,
          Time |-> 0, Version |-> EmptyString, Signature |-> <<>>]
NoError == "nil"
NoTask == 0

\* type DaycareRegistration struct
DaycareRegistration(host, pts, cap, time, version, sig) ==
    [Hostname |-> host, ProblemTypes |-> pts, Capacity |-> cap,
     Time |-> time, Version |-> version, Signature |-> sig]

\* a registration as a daycare with the given secret builds and signs it
SignedWith(host, pts, cap, time, version, secret) ==
    LET reg == DaycareRegistration(host, pts, cap, time, version, <<>>)
    IN  [AfterComputeSignature(reg) EXCEPT
            !.Signature = ComputeSignature(reg, secret)]

(* --------------------------- registry methods -------------------------- *)

\* an expiry that also removes an entry whose age equals the limit
Expired_AtLimit(elt, t) == t - elt.Time >= 2 * daycareRegistrationInterval

\* an expiry after one registration interval instead of two
Expired_OneInterval(elt, t) == t - elt.Time > daycareRegistrationInterval

\* the test of daycares.Expire on one entry
Expired(elt, t) == t - elt.Time > 2 * daycareRegistrationInterval

\* daycares.Expire: the map after the loop
ExpireMap(m, t) ==
    LET keep == {h \in DOMAIN m : ~Expired(m[h], t)}
    IN  [h \in keep |-> m[h]]

\* Insert without the version check
InsertError_NoVersionCheck(reg, t) ==
    LET sig == ComputeSignature(reg, DaycareSecret)
        drift == Abs(t - reg.Time)
    IN  IF sig # reg.Signature THEN "signature mismatch"
        ELSE IF drift > Minute THEN "time drift is too great"
        ELSE NoError

\* Insert without the negation of a negative drift
InsertError_SignedDrift(reg, t) ==
    LET sig == ComputeSignature(reg, DaycareSecret)
        drift == t - reg.Time
    IN  IF sig # reg.Signature THEN "signature mismatch"
        ELSE IF reg.Version # CurrentVersion THEN "version mismatch"
        ELSE IF drift > Minute THEN "time drift is too great"
        ELSE NoError

\* daycares.Insert: the error it returns, NoError on acceptance
InsertError(reg, t) ==
    LET sig == ComputeSignature(reg, DaycareSecret)
        drift == Abs(t - reg.Time)
    IN  IF sig # reg.Signature THEN "signature mismatch"
        ELSE IF reg.Version # CurrentVersion THEN "version mismatch"
        ELSE IF drift > Minute THEN "time drift is too great"
        ELSE NoError

\* a clean-up that leaves the problem types in the order they were sent
Cleaned_Unsorted(reg, t) ==
    [reg EXCEPT !.Time = t,
                !.Version = EmptyString,
                !.Signature = <<>>]

\* daycares.Insert: the entry stored on acceptance ("clean it up a bit")
Cleaned(reg, t) ==
    [reg EXCEPT !.ProblemTypes = SortStrings(reg.ProblemTypes),
                !.Time = t,
                !.Version = EmptyString,
                !.Signature = <<>>]

\* an Insert that stores the registration before it checks it
InsertMap_StoreBeforeChecks(m, reg, t) ==
    [h \in DOMAIN m \cup {reg.Hostname} |->
        IF h = reg.Hostname THEN Cleaned(reg, t) ELSE m[h]]

\* an Insert that keeps the entry a hostname already has
InsertMap_KeepExisting(m, reg, t) ==
    IF InsertError(reg, t) # NoError THEN m
    ELSE [h \in DOMAIN m \cup {reg.Hostname} |->
            IF h \in DOMAIN m THEN m[h] ELSE Cleaned(reg, t)]

\* daycares.Insert: the map after the call
InsertMap(m, reg, t) ==
    IF InsertError(reg, t) # NoError THEN m
    ELSE [h \in DOMAIN m \cup {reg.Hostname} |->
            IF h = reg.Hostname THEN Cleaned(reg, t) ELSE m[h]]

\* the eligibility test of daycares.Assign
Eligible(elt, problemType) ==
    LET n == SearchStrings(elt.ProblemTypes, problemType)
    IN  n < Len(elt.ProblemTypes) /\ elt.ProblemTypes[n + 1] = problemType

\* a first loop that adds the capacity of every host, eligible or not
RECURSIVE TotalWeight_CountAll(_, _, _)
TotalWeight_CountAll(m, problemType, order) ==
    IF order = <<>> THEN 0
    ELSE m[Head(order)].Capacity + TotalWeight_CountAll(m, problemType, Tail(order))

\* first loop of daycares.Assign over the map in iteration order
RECURSIVE TotalWeight(_, _, _)
TotalWeight(m, problemType, order) ==
    IF order = <<>> THEN 0
    ELSE (IF Eligible(m[Head(order)], problemType)
          THEN m[Head(order)].Capacity ELSE 0)
         + TotalWeight(m, problemType, Tail(order))

\* a return test that also fires when the pick equals the skipped weight
PointReached_Inclusive(point, skippedWeight) == point <= skippedWeight

\* the return test of the second loop
PointReached(point, skippedWeight) == point < skippedWeight

\* a second loop that does not accumulate the skipped weight
RECURSIVE Walk_NoAccumulate(_, _, _, _, _)
Walk_NoAccumulate(m, problemType, order, point, skippedWeight) ==
    IF order = <<>>
    THEN [host |-> EmptyString,
          err |-> "failed to find daycare, please report this error"]
    ELSE LET elt == m[Head(order)]
             skipped == IF Eligible(elt, problemType)
                        THEN elt.Capacity
                        ELSE skippedWeight
         IN  IF PointReached(point, skipped)
             THEN [host |-> Head(order), err |-> NoError]
             ELSE Walk_NoAccumulate(m, problemType, Tail(order), point, skipped)

\* second loop of daycares.Assign over the map in iteration order
RECURSIVE Walk(_, _, _, _, _)
Walk(m, problemType, order, point, skippedWeight) ==
    IF order = <<>>
    THEN [host |-> EmptyString,
          err |-> "failed to find daycare, please report this error"]
    ELSE LET elt == m[Head(order)]
             skipped == IF Eligible(elt, problemType)
                        THEN skippedWeight + elt.Capacity
                        ELSE skippedWeight
         IN  IF PointReached(point, skipped)
             THEN [host |-> Head(order), err |-> NoError]
             ELSE Walk(m, problemType, Tail(order), point, skipped)

\* the iteration orders of a Go map: every order of its keys
Orders(m) ==
    {o \in [1..Cardinality(DOMAIN m) -> DOMAIN m] :
        \A i, j \in DOMAIN o : i # j => o[i] # o[j]}

\* rand.Intn(n): the values it can return
Intn(n) == 0..(n - 1)

\* daycares.Assign for one iteration order per loop and one random pick;
\* the pick is only made when the total weight is not zero
AssignResult(m, problemType, order1, order2, point) ==
    IF TotalWeight(m, problemType, order1) = 0
    THEN [host |-> EmptyString, err |-> "no eligible daycare found"]
    ELSE Walk(m, problemType, order2, point, 0)

(* ------------------------- inputs of the model ------------------------- *)

\* request tasks of the TA that run concurrently
Tasks == {1, 2}

\* daycare configurations (hostname, problemTypes, capacity) of the fleet;
\* host A is seen with two configurations, before and after a reconfiguration
FleetConfigs ==
    { <<"A", <<"python34unittest", "gounittest">>, MaxCapacity>>,
      <<"A", <<"gounittest">>, 1>>,
      <<"B", <<"python27unittest", "gounittest">>, 2>> }

\* registrations that reach the TA at time t from the fleet: well-formed
\* ones, and one of each kind that Insert refuses
FleetRegs(t) ==
    {SignedWith(c[1], c[2], c[3], t, CurrentVersion, DaycareSecret) : c \in FleetConfigs}
    \cup {SignedWith("B", <<"gounittest">>, MaxCapacity, t, CurrentVersion, OtherSecret),
          SignedWith("A", <<"gounittest">>, 2, t, OldVersion, DaycareSecret),
          SignedWith("B", <<"gounittest">>, 2, t - Minute - Second, CurrentVersion, DaycareSecret)}

\* problem types a client asks for
AskedTypes == ProblemTypeNames

\* the clock advances by a registration interval, or by one tick more
TickSteps == {daycareRegistrationInterval, daycareRegistrationInterval + 1}

NoBody == <<>>

\* what an operation was given (reg, pt) and what it produced: the hostname
\* and error returned, whether Insert logged the registration as added, and
\* the status and body of the HTTP response
Ret(op, reg, pt, host, err, added, status, body) ==
    [op |-> op, reg |-> reg, pt |-> pt, host |-> host, err |-> err,
     added |-> added, status |-> status, body |-> body]

NoRet == Ret("none", NoReg, EmptyString, EmptyString, NoError, FALSE, 0, NoBody)

\* daycares.Insert: whether it logs "daycare registration for %s added"
LogsAdded(m, reg, t) ==
    InsertError(reg, t) = NoError /\ reg.Hostname \notin DOMAIN m

\* a POST handler that does not report Insert's error to the client
PostStatus_IgnoreError(err) == 200

\* POST /v2/daycare_registrations: the status of the response; the handler
\* writes nothing when Insert returns nil, and http.StatusBadRequest otherwise
PostStatus(err) == IF err = NoError THEN 200 ELSE 400

\* history: the entry a host was last accepted with
Accept(reg, t) ==
    IF InsertError(reg, t) = NoError
    THEN [lastAccepted EXCEPT ![reg.Hostname] = Cleaned(reg, t)]
    ELSE lastAccepted

(* ------------------------ registry operations -------------------------- *)

\* time passes on the TA
Tick(d) ==
    /\ now + d <= MaxNow
    /\ now' = now + d
    /\ ret' = [NoRet EXCEPT !.op = "Tick"]
    /\ UNCHANGED <<extVars, daycares, lastAccepted, taskVars, workerVars>>

\* a call of daycares.Expire
Expire ==
    /\ daycares' = ExpireMap(daycares, now)
    /\ ret' = [NoRet EXCEPT !.op = "Expire"]
    /\ UNCHANGED <<extVars, now, lastAccepted, taskVars, workerVars>>

\* a call of daycares.Insert
Insert(reg) ==
    /\ daycares' = InsertMap(daycares, reg, now)
    /\ lastAccepted' = Accept(reg, now)
    /\ ret' = [NoRet EXCEPT !.op = "Insert", !.reg = reg,
                            !.err = InsertError(reg, now),
                            !.added = LogsAdded(daycares, reg, now)]
    /\ UNCHANGED <<extVars, now, taskVars, workerVars>>

\* a call of daycares.Assign
Assign(problemType) ==
    LET orders == Orders(daycares)
    IN  \E order1 \in orders :
            LET total == TotalWeight(daycares, problemType, order1)
            IN  \E order2 \in orders, point \in (IF total = 0 THEN {0} ELSE Intn(total)) :
                    LET r == AssignResult(daycares, problemType, order1, order2, point)
                    IN  /\ ret' = [NoRet EXCEPT !.op = "Assign", !.pt = problemType,
                                                !.host = r.host, !.err = r.err]
                        /\ UNCHANGED <<extVars, now, daycares, lastAccepted, taskVars, workerVars>>

\* GET /v2/daycare_registrations
GetRegistrations ==
    /\ daycares' = ExpireMap(daycares, now)
    /\ ret' = [NoRet EXCEPT !.op = "GET", !.status = 200, !.body = daycares']
    /\ UNCHANGED <<extVars, now, lastAccepted, taskVars, workerVars>>

\* POST /v2/daycare_registrations
PostRegistration(reg) ==
    LET live == ExpireMap(daycares, now)
        err == InsertError(reg, now)
    IN  /\ daycares' = InsertMap(live, reg, now)
        /\ lastAccepted' = Accept(reg, now)
        /\ ret' = [NoRet EXCEPT !.op = "POST", !.reg = reg, !.err = err,
                                !.added = LogsAdded(live, reg, now),
                                !.status = PostStatus(err)]
        /\ UNCHANGED <<extVars, now, taskVars, workerVars>>

(* ----------------------- registry specification ------------------------ *)

\* a request: its route, and the registration or problem type it carries
Request(kind, reg, pt) == [kind |-> kind, reg |-> reg, pt |-> pt]
NoRequest == Request("none", NoReg, EmptyString)

\* the daycare's Config as the registration goroutine uses it
WorkerConfig(secret, ta) ==
    [Hostname |-> "A",
     ProblemTypes |-> <<"python34unittest", "gounittest">>,
     Capacity |-> MaxCapacity,
     DaycareSecret |-> secret,
     ta |-> ta]

(* ------------------------ the counter middleware ----------------------- *)

\* durations of a request's handler (c.Next()), in seconds
Durations == {1, 2}

\* statuses a handler leaves in the response writer
Statuses == {200, 500}

\* the locals of the middleware: seconds, the response status, and the
\* value a read-modify-write has loaded
Locals(seconds, status, loaded) ==
    [seconds |-> seconds, status |-> status, loaded |-> loaded]
NoLocals == Locals(0, 0, 0)

\* totalSeconds / float64(hits) as a fraction
Quotient(total, n) == [num |-> total, den |-> n]

\* var ( hits int; slowest float64; totalSeconds float64 ) and the expvar
\* counters published from them
InitCounter ==
    /\ metrics = [hits |-> 0, slowest |-> 0, totalSeconds |-> 0]
    /\ expvars = [hits |-> 0, slowest |-> 0, totalSeconds |-> 0,
                  averageSeconds |-> Quotient(0, 0), errors |-> 0]
    /\ cpc = [t \in Tasks |-> "idle"]
    /\ clocal = [t \in Tasks |-> NoLocals]
    /\ cfinished = [n |-> 0, sum |-> 0]

CounterAt(t, position) == [cpc EXCEPT ![t] = position]

\* start := time.Now(); c.Next(); now := time.Now();
\* seconds := now.Sub(start).Seconds()
CounterNext(t, seconds, status) ==
    /\ cpc[t] = "idle"
    /\ cfinished.n + Cardinality({u \in Tasks : cpc[u] # "idle"}) < MaxRequests
    /\ clocal' = [clocal EXCEPT ![t] = Locals(seconds, status, 0)]
    /\ cpc' = CounterAt(t, "hits.load")
    /\ UNCHANGED <<regVars, taskVars, workerVars, requestVars, advanceVars, printVars, callVars, gradeVars, sessionVars, tableVars, metrics, expvars, cfinished>>

\* hits++: the load of hits
HitsLoad(t) ==
    /\ cpc[t] = "hits.load"
    /\ clocal' = [clocal EXCEPT ![t].loaded = metrics.hits]
    /\ cpc' = CounterAt(t, "hits.store")
    /\ UNCHANGED <<regVars, taskVars, workerVars, requestVars, advanceVars, printVars, callVars, gradeVars, sessionVars, tableVars, metrics, expvars, cfinished>>

\* hits++: the store of the incremented value; hitsCounter.Add(1)
HitsStore(t) ==
    /\ cpc[t] = "hits.store"
    /\ metrics' = [metrics EXCEPT !.hits = clocal[t].loaded + 1]
    /\ expvars' = [expvars EXCEPT !.hits = @ + 1]
    /\ cpc' = CounterAt(t, "slowest")
    /\ UNCHANGED <<regVars, taskVars, workerVars, requestVars, advanceVars, printVars, callVars, gradeVars, sessionVars, tableVars, clocal, cfinished>>

\* if seconds > slowest { slowest = seconds; slowestCounter.Set(seconds) }
Slowest(t) ==
    /\ cpc[t] = "slowest"
    /\ IF clocal[t].seconds > metrics.slowest
       THEN /\ metrics' = [metrics EXCEPT !.slowest = clocal[t].seconds]
            /\ expvars' = [expvars EXCEPT !.slowest = clocal[t].seconds]
       ELSE UNCHANGED <<metrics, expvars>>
    /\ cpc' = CounterAt(t, "totalSeconds.load")
    /\ UNCHANGED <<regVars, taskVars, workerVars, requestVars, advanceVars, printVars, callVars, gradeVars, sessionVars, tableVars, clocal, cfinished>>

\* totalSeconds += seconds: the load of totalSeconds
TotalLoad(t) ==
    /\ cpc[t] = "totalSeconds.load"
    /\ clocal' = [clocal EXCEPT ![t].loaded = metrics.totalSeconds]
    /\ cpc' = CounterAt(t, "totalSeconds.store")
    /\ UNCHANGED <<regVars, taskVars, workerVars, requestVars, advanceVars, printVars, callVars, gradeVars, sessionVars, tableVars, metrics, expvars, cfinished>>

\* totalSeconds += seconds: the store; totalSecondsCounter.Add(seconds)
TotalStore(t) ==
    /\ cpc[t] = "totalSeconds.store"
    /\ metrics' = [metrics EXCEPT !.totalSeconds = clocal[t].loaded + clocal[t].seconds]
    /\ expvars' = [expvars EXCEPT !.totalSeconds = @ + clocal[t].seconds]
    /\ cpc' = CounterAt(t, "average")
    /\ UNCHANGED <<regVars, taskVars, workerVars, requestVars, advanceVars, printVars, callVars, gradeVars, sessionVars, tableVars, clocal, cfinished>>

\* averageSecondsCounter.Set(totalSeconds / float64(hits)); errorsCounter.Add(1)
\* when the status is 400 or more; the middleware returns
Average(t) ==
    /\ cpc[t] = "average"
    /\ expvars' = [expvars EXCEPT
            !.averageSeconds = Quotient(metrics.totalSeconds, metrics.hits),
            !.errors = IF clocal[t].status >= 400 THEN @ + 1 ELSE @]
    /\ cfinished' = [n |-> cfinished.n + 1, sum |-> cfinished.sum + clocal[t].seconds]
    /\ clocal' = [clocal EXCEPT ![t] = NoLocals]
    /\ cpc' = CounterAt(t, "idle")
    /\ UNCHANGED <<regVars, taskVars, workerVars, requestVars, advanceVars, printVars, callVars, gradeVars, sessionVars, tableVars, metrics>>

NextCounter ==
    \/ \E t \in Tasks, seconds \in Durations, status \in Statuses :
            CounterNext(t, seconds, status)
    \/ \E t \in Tasks : HitsLoad(t)
    \/ \E t \in Tasks : HitsStore(t)
    \/ \E t \in Tasks : Slowest(t)
    \/ \E t \in Tasks : TotalLoad(t)
    \/ \E t \in Tasks : TotalStore(t)
    \/ \E t \in Tasks : Average(t)

(* --------------------------- the grade command ------------------------- *)

\* Commit.ReportCard: nil, or a report card with Passed set or not
ReportCards == {"nil", "passed", "failed"}

\* Commit.Score: 0.0 and 1.0
Scores == {0, 1}

\* Commit.Step of the commit that gather builds from the directory
Steps == {1, 2}

\* a CommitBundle: who produced it, and the fields of its Commit that
\* CommandGrade reads
CommitBundle(origin, step, reportCard, score) ==
    [origin |-> origin, step |-> step, reportCard |-> reportCard, score |-> score]
NoBundle == CommitBundle("none", 0, "nil", 0)

\* bundles a server answers a request for a commit at the given step with
Responses(origin, step) ==
    {CommitBundle(origin, step, rc, sc) : rc \in ReportCards, sc \in Scores}

\* a request the command sends: the endpoint and the bundle posted
Hop(to, sent) == [to |-> to, sent |-> sent]

\* the steps of the problem on the server
ProblemSteps == Steps

\* ProblemStep.Files of a step: the names, as the parts strings.Split(name, "/")
\* gives; the contents of a file of a step are written as the step's number
StepNames(step) ==
    IF step = 1
    THEN {<<"part1.py">>, <<"tests", "test_1.py">>, <<"inputs", "1.txt">>}
    ELSE {<<"part2.py">>, <<"tests", "test_1.py">>, <<"tests", "test_2.py">>}
StepFiles(step) == [name \in StepNames(step) |-> step]

\* len(strings.Split(name, "/")) == 1
IsRootFile(name) == Len(name) = 1

\* a file of the student's own, contents 0
OwnFiles == [name \in {<<"notes.txt">>} |-> 0]

\* f with the entries of g added or replaced
Overlay(f, g) ==
    [name \in DOMAIN f \cup DOMAIN g |-> IF name \in DOMAIN g THEN g[name] ELSE f[name]]

\* f without the entry for name
Without(f, name) == [other \in DOMAIN f \ {name} |-> f[other]]

\* directories gather can find at a step: the step's files, with or without
\* a file of the student's own, or with one file of a subdirectory missing
Disks(step) ==
    LET dotfile == [step |-> step,
                    whitelist |-> {name \in StepNames(step) : Len(name) = 1}]
        complete == StepFiles(step)
    IN  {[files |-> files, dotfile |-> dotfile] :
            files \in {complete, Overlay(complete, OwnFiles)}
                \cup {Without(complete, name) :
                        name \in {other \in StepNames(step) : Len(other) > 1}}}
NoDisk == [files |-> <<>>, dotfile |-> [step |-> 0, whitelist |-> {}]]
NoLoop == [oldStep |-> 0, newStep |-> 0, todo |-> {}, info |-> NoDisk.dotfile]

InitAdvance ==
    /\ gdisk = NoDisk
    /\ gdisk0 = NoDisk
    /\ gloop = NoLoop
    /\ gops = <<>>

InitGrade ==
    /\ gpc = "start"
    /\ gbundles = [unsigned |-> NoBundle, signed |-> NoBundle,
                   graded |-> NoBundle, saved |-> NoBundle]
    /\ glog = <<>>
    /\ gresult = "none"

\* a decision made on the bundle the daycare returned
Decision_OnGraded(graded, saved) ==
    IF graded.reportCard = "passed" /\ graded.score = 1
    THEN "passed" ELSE "failed"

\* commit = saved.Commit; commit.ReportCard != nil &&
\* commit.ReportCard.Passed && commit.Score == 1.0
Decision(graded, saved) ==
    IF saved.reportCard = "passed" /\ saved.score = 1
    THEN "passed" ELSE "failed"

\* the switch on len(args), gather, and the unsigned bundle
GradeGather(nargs, step) ==
    /\ gpc = "start"
    /\ IF nargs > 1
       THEN /\ gpc' = "exit"
            /\ gresult' = "help"
            /\ UNCHANGED <<gbundles, gdisk, gdisk0>>
       ELSE /\ gpc' = "post.unsigned"
            /\ gbundles' = [gbundles EXCEPT
                    !.unsigned = CommitBundle("grind", step, "nil", 0)]
            /\ \E disk \in Disks(step) : gdisk' = disk /\ gdisk0' = disk
            /\ UNCHANGED gresult
    /\ UNCHANGED <<regVars, taskVars, workerVars, requestVars, printVars, callVars, counterVars, sessionVars, tableVars, glog, gloop, gops>>

\* mustPostObject(".../commit_bundles/unsigned", nil, unsigned, signed):
\* it returns with the TA's answer in signed, or it does not return
PostUnsigned(ok) ==
    /\ gpc = "post.unsigned"
    /\ glog' = Append(glog, Hop("ta/unsigned", gbundles.unsigned))
    /\ IF ok
       THEN /\ gbundles' = [gbundles EXCEPT
                    !.signed = CommitBundle("ta/unsigned", gbundles.unsigned.step, "nil", 0)]
            /\ gpc' = "confirm"
            /\ UNCHANGED gresult
       ELSE /\ gpc' = "exit"
            /\ gresult' = "fatal"
            /\ UNCHANGED gbundles
    /\ UNCHANGED <<regVars, taskVars, workerVars, requestVars, advanceVars, printVars, callVars, counterVars, sessionVars, tableVars>>

\* graded := mustConfirmCommitBundle(signed, nil)
ConfirmCommitBundle(ok, response) ==
    /\ gpc = "confirm"
    /\ glog' = Append(glog, Hop("daycare", gbundles.signed))
    /\ IF ok
       THEN /\ gbundles' = [gbundles EXCEPT !.graded = response]
            /\ gpc' = "post.signed"
            /\ UNCHANGED gresult
       ELSE /\ gpc' = "exit"
            /\ gresult' = "fatal"
            /\ UNCHANGED gbundles
    /\ UNCHANGED <<regVars, taskVars, workerVars, requestVars, advanceVars, printVars, callVars, counterVars, sessionVars, tableVars>>

\* mustPostObject(".../commit_bundles/signed", nil, graded, saved)
PostSigned(ok, response) ==
    /\ gpc = "post.signed"
    /\ glog' = Append(glog, Hop("ta/signed", gbundles.graded))
    /\ IF ok
       THEN /\ gbundles' = [gbundles EXCEPT !.saved = response]
            /\ gpc' = "decide"
            /\ UNCHANGED gresult
       ELSE /\ gpc' = "exit"
            /\ gresult' = "fatal"
            /\ UNCHANGED gbundles
    /\ UNCHANGED <<regVars, taskVars, workerVars, requestVars, advanceVars, printVars, callVars, counterVars, sessionVars, tableVars>>

\* commit = saved.Commit and the test that selects the branch
Decide ==
    /\ gpc = "decide"
    /\ gresult' = Decision(gbundles.graded, gbundles.saved)
    /\ gpc' = IF Decision(gbundles.graded, gbundles.saved) = "passed"
              THEN "advance" ELSE "exit"
    /\ UNCHANGED <<regVars, taskVars, workerVars, requestVars, advanceVars, printVars, callVars, counterVars, sessionVars, tableVars, gbundles, glog>>

\* getObject for the step after commit.Step, and the return when there is none
GetNextStep ==
    /\ gpc = "advance"
    /\ IF gbundles.saved.step + 1 \in ProblemSteps
       THEN /\ gloop' = [gloop EXCEPT !.newStep = gbundles.saved.step + 1]
            /\ gpc' = "get.old"
       ELSE /\ gpc' = "exit"
            /\ UNCHANGED gloop
    /\ UNCHANGED <<regVars, taskVars, workerVars, requestVars, printVars, callVars, counterVars, sessionVars, tableVars, gbundles, glog, gresult, gdisk, gdisk0, gops>>

\* mustGetObject for the step commit.Step
GetOldStep(ok) ==
    /\ gpc = "get.old"
    /\ IF ok
       THEN /\ gloop' = [gloop EXCEPT !.oldStep = gbundles.saved.step,
                                      !.todo = StepNames(gbundles.saved.step)]
            /\ gpc' = "remove"
            /\ UNCHANGED gresult
       ELSE /\ gpc' = "exit"
            /\ gresult' = "fatal"
            /\ UNCHANGED gloop
    /\ UNCHANGED <<regVars, taskVars, workerVars, requestVars, printVars, callVars, counterVars, sessionVars, tableVars, gbundles, glog, gdisk, gdisk0, gops>>

\* one iteration of the loop over oldStep.Files, in the map's order:
\* os.Remove of a file in a subdirectory, which fails for a missing file;
\* after the last one, info := dotfile.Problems[problem.Unique]
RemoveOld(name, ok) ==
    /\ gpc = "remove"
    /\ name \in gloop.todo
    /\ ok => name \in DOMAIN gdisk.files
    /\ IF IsRootFile(name) \/ ok
       THEN /\ gloop' = IF gloop.todo = {name}
                        THEN [gloop EXCEPT !.todo = StepNames(gloop.newStep),
                                           !.info = gdisk.dotfile]
                        ELSE [gloop EXCEPT !.todo = @ \ {name}]
            /\ gpc' = IF gloop.todo = {name} THEN "write" ELSE "remove"
            /\ UNCHANGED gresult
       ELSE /\ gpc' = "exit"
            /\ gresult' = "fatal"
            /\ UNCHANGED gloop
    /\ IF ~IsRootFile(name) /\ ok
       THEN /\ gdisk' = [gdisk EXCEPT !.files = Without(@, name)]
            /\ gops' = Append(gops, <<"remove", name>>)
       ELSE UNCHANGED <<gdisk, gops>>
    /\ UNCHANGED <<regVars, taskVars, workerVars, requestVars, printVars, callVars, counterVars, sessionVars, tableVars, gbundles, glog, gdisk0>>

\* one iteration of the loop over newStep.Files, in the map's order:
\* os.MkdirAll, ioutil.WriteFile, and the whitelist entry of a root file
WriteNew(name, ok) ==
    /\ gpc = "write"
    /\ name \in gloop.todo
    /\ IF ok
       THEN /\ gdisk' = [gdisk EXCEPT !.files =
                            Overlay(@, [n \in {name} |-> gloop.newStep])]
            /\ gops' = Append(gops, <<"write", name>>)
            /\ gloop' = [gloop EXCEPT
                    !.todo = @ \ {name},
                    !.info.whitelist = IF IsRootFile(name) THEN @ \cup {name} ELSE @]
            /\ gpc' = IF gloop.todo = {name} THEN "dotfile" ELSE "write"
            /\ UNCHANGED gresult
       ELSE /\ gpc' = "exit"
            /\ gresult' = "fatal"
            /\ UNCHANGED <<gdisk, gops, gloop>>
    /\ UNCHANGED <<regVars, taskVars, workerVars, requestVars, printVars, callVars, counterVars, sessionVars, tableVars, gbundles, glog, gdisk0>>

\* info.Step++, json.MarshalIndent and ioutil.WriteFile of the dotfile
WriteDotfile(ok) ==
    /\ gpc = "dotfile"
    /\ gloop' = [gloop EXCEPT !.info.step = @ + 1]
    /\ gpc' = "exit"
    /\ IF ok
       THEN /\ gdisk' = [gdisk EXCEPT !.dotfile = gloop'.info]
            /\ gops' = Append(gops, <<"dotfile">>)
            /\ UNCHANGED gresult
       ELSE /\ gresult' = "fatal"
            /\ UNCHANGED <<gdisk, gops>>
    /\ UNCHANGED <<regVars, taskVars, workerVars, requestVars, printVars, callVars, counterVars, sessionVars, tableVars, gbundles, glog, gdisk0>>

NextGrade ==
    \/ \E nargs \in 0..2, step \in Steps : GradeGather(nargs, step)
    \/ \E ok \in BOOLEAN : PostUnsigned(ok)
    \/ \E ok \in BOOLEAN, response \in Responses("daycare", gbundles.signed.step) :
            ConfirmCommitBundle(ok, response)
    \/ \E ok \in BOOLEAN, response \in Responses("ta/signed", gbundles.graded.step) :
            PostSigned(ok, response)
    \/ Decide
    \/ GetNextStep
    \/ \E ok \in BOOLEAN : GetOldStep(ok)
    \/ \E name \in gloop.todo, ok \in BOOLEAN : RemoveOld(name, ok)
    \/ \E name \in gloop.todo, ok \in BOOLEAN : WriteNew(name, ok)
    \/ \E ok \in BOOLEAN : WriteDotfile(ok)

(* ------------------------- the worker's session ------------------------ *)

\* the HMAC of a bundle's pre-grading commit under a secret
ProblemSignature(secret, problemType, action) == <<secret, problemType, action>>

\* first frames a client sends: bundles signed by the TA, by a holder of
\* another secret, or signed for another action, for a problem type the
\* worker serves or not, and a staged or an interactive action
FirstFrames ==
    UNION { {[problemType |-> pt, action |-> a, problemSignature |-> sig] :
                sig \in {ProblemSignature(DaycareSecret, pt, a),
                         ProblemSignature(OtherSecret, pt, a),
                         ProblemSignature(DaycareSecret, pt, "debug")}} :
            pt \in {"python34unittest", "unknownType"}, a \in {"grade", "run"} }

\* a handshake that does not compare the signature
HandshakeError_NoSignatureCheck(frame) ==
    IF frame.problemType # "python34unittest" THEN 1008 ELSE 0

\* the close code the handshake ends the connection with, 0 when the first
\* frame is accepted
HandshakeError(frame) ==
    IF frame.problemSignature
            # ProblemSignature(DaycareSecret, frame.problemType, frame.action)
    THEN 1008
    ELSE IF frame.problemType # "python34unittest" THEN 1008 ELSE 0

\* the execs of an action: one for an interactive action, a fixed sequence
\* for a staged one
StepCount(frame) == IF frame.action = "grade" THEN MaxSteps ELSE 1

\* a release that leaves the container running
Release_Leak(box) == box

\* the scoped release of the sandbox: Destroy() kills the container
Release(box) == IF box = "created" THEN "destroyed" ELSE box

\* a runner that starts the next exec while one is running
CanExec_Pipelined(state) == state \in {"FilesMaterialized", "Executing", "Exited"}

\* the states in which the runner starts an exec
CanExec(state) == state \in {"FilesMaterialized", "Exited"}

\* the event sink: a frame goes on the wire and into the transcript
Emit(frames, tag, step, arg) ==
    LET f == [tag |-> tag, step |-> step, arg |-> arg]
    IN  [wire |-> Append(frames.wire, f), transcript |-> Append(frames.transcript, f)]

InitSession ==
    /\ spc = "idle"
    /\ sinput = [problemType |-> EmptyString, action |-> EmptyString,
                 problemSignature |-> <<>>]
    /\ sbox = "none"
    /\ sdestroys = 0
    /\ sframes = [wire |-> <<>>, transcript |-> <<>>]
    /\ sstep = 0
    /\ sclose = [cause |-> "none", code |-> 0]

\* a client connects and its first frame arrives
SessionOpen(frame) ==
    /\ spc = "idle"
    /\ spc' = "Handshake"
    /\ sinput' = frame
    /\ UNCHANGED <<regVars, taskVars, workerVars, requestVars, advanceVars, printVars, callVars, counterVars, gradeVars, tableVars,
                   sbox, sdestroys, sframes, sstep, sclose>>

\* the handshake: the worker closes on a bad first frame; otherwise it
\* obtains a container and materializes the files, or fails to obtain one
Handshake(engineUp) ==
    /\ spc = "Handshake"
    /\ IF HandshakeError(sinput) # 0
       THEN /\ spc' = "Closed"
            /\ sclose' = [cause |-> "bad request", code |-> HandshakeError(sinput)]
            /\ UNCHANGED <<sbox, sframes>>
       ELSE IF engineUp
       THEN /\ spc' = "FilesMaterialized"
            /\ sbox' = "created"
            /\ UNCHANGED <<sclose, sframes>>
       ELSE /\ spc' = "Closed"
            /\ sclose' = [cause |-> "sandbox unavailable", code |-> 1011]
            /\ sframes' = Emit(sframes, "error", sstep, "sandbox unavailable")
            /\ UNCHANGED sbox
    /\ UNCHANGED <<regVars, taskVars, workerVars, requestVars, advanceVars, printVars, callVars, counterVars, gradeVars, tableVars,
                   sinput, sdestroys, sstep>>

\* the runner starts the next exec
ExecBegin ==
    /\ CanExec(spc)
    /\ sstep < StepCount(sinput)
    /\ sstep' = sstep + 1
    /\ sframes' = Emit(sframes, "exec", sstep + 1, "argv")
    /\ spc' = "Executing"
    /\ UNCHANGED <<regVars, taskVars, workerVars, requestVars, advanceVars, printVars, callVars, counterVars, gradeVars, tableVars,
                   sinput, sbox, sdestroys, sclose>>

\* the exec ends: the process exits, or the per-step deadline kills it
ExecExit(how) ==
    /\ spc = "Executing"
    /\ sframes' = Emit(sframes, "exit", sstep, how)
    /\ spc' = "Exited"
    /\ UNCHANGED <<regVars, taskVars, workerVars, requestVars, advanceVars, printVars, callVars, counterVars, gradeVars, tableVars,
                   sinput, sbox, sdestroys, sstep, sclose>>

\* normal finish after the last step: the signed terminal frame, shutdown,
\* and the release of the sandbox
SessionFinish ==
    /\ spc = "Exited"
    /\ sstep = StepCount(sinput)
    /\ sframes' = Emit(Emit(sframes, "commit", sstep, "commitSignature"),
                       "shutdown", sstep, EmptyString)
    /\ sbox' = Release(sbox)
    /\ sdestroys' = sdestroys + 1
    /\ spc' = "Closed"
    /\ sclose' = [cause |-> "normal finish", code |-> 1000]
    /\ UNCHANGED <<regVars, taskVars, workerVars, requestVars, advanceVars, printVars, callVars, counterVars, gradeVars, tableVars,
                   sinput, sstep>>

\* the cancellation token is tripped by a client close, by the session
\* deadline or by a worker error; the session unwinds through Destroy()
SessionAbort(cause) ==
    /\ spc \in {"FilesMaterialized", "Executing", "Exited"}
    /\ sframes' = CASE cause = "client disconnect" -> sframes
                    [] cause = "session deadline" ->
                         Emit(Emit(sframes, "error", sstep, "session deadline exceeded"),
                              "shutdown", sstep, EmptyString)
                    [] cause = "worker error" ->
                         Emit(sframes, "error", sstep, "internal error")
    /\ sbox' = Release(sbox)
    /\ sdestroys' = sdestroys + 1
    /\ spc' = "Closed"
    /\ sclose' = [cause |-> cause,
                  code |-> CASE cause = "client disconnect" -> 0
                             [] cause = "session deadline" -> 1000
                             [] cause = "worker error" -> 1011]
    /\ UNCHANGED <<regVars, taskVars, workerVars, requestVars, advanceVars, printVars, callVars, counterVars, gradeVars, tableVars,
                   sinput, sstep>>

NextSession ==
    \/ \E frame \in FirstFrames : SessionOpen(frame)
    \/ \E engineUp \in BOOLEAN : Handshake(engineUp)
    \/ ExecBegin
    \/ \E how \in {"status 0", "status 1", "killed:deadline"} : ExecExit(how)
    \/ SessionFinish
    \/ \E cause \in {"client disconnect", "session deadline", "worker error"} :
            SessionAbort(cause)

(* --------------------- the problem type setup script ------------------- *)

\* INSERT INTO problem_types (name, image)
ProblemType(name, image) ==
    [table |-> "problem_types", name |-> name, image |-> image]

\* an INSERT whose column list names max_timeout before max_session
ProblemTypeAction_SwappedColumns(problem_type, action, interactive, max_cpu, max_session, max_timeout) ==
    [table |-> "problem_type_actions", problem_type |-> problem_type,
     action |-> action, interactive |-> interactive, max_cpu |-> max_cpu,
     max_session |-> max_timeout, max_timeout |-> max_session]

\* INSERT INTO problem_type_actions (problem_type, action, button, message,
\* interactive, max_cpu, max_session, max_timeout, ...): the columns the
\* session limits are taken from
ProblemTypeAction(problem_type, action, interactive, max_cpu, max_session, max_timeout) ==
    [table |-> "problem_type_actions", problem_type |-> problem_type,
     action |-> action, interactive |-> interactive, max_cpu |-> max_cpu,
     max_session |-> max_session, max_timeout |-> max_timeout]

\* the statements of the script, in order
Statements ==
    << ProblemType("armv6asm", "codegrinder/armv6asm"),
       ProblemTypeAction("armv6asm", "grade", FALSE, 60, 120, 120),
       ProblemTypeAction("armv6asm", "test", TRUE, 60, 120, 120),
       ProblemTypeAction("armv6asm", "valgrind", TRUE, 60, 120, 120),
       ProblemTypeAction("armv6asm", "debug", TRUE, 60, 1800, 300),
       ProblemTypeAction("armv6asm", "run", TRUE, 60, 1800, 300),
       ProblemType("armv8asm", "codegrinder/armv8asm"),
       ProblemTypeAction("armv8asm", "grade", FALSE, 60, 120, 120),
       ProblemTypeAction("armv8asm", "test", TRUE, 60, 120, 120),
       ProblemTypeAction("armv8asm", "valgrind", TRUE, 60, 120, 120),
       ProblemTypeAction("armv8asm", "debug", TRUE, 60, 1800, 300),
       ProblemTypeAction("armv8asm", "run", TRUE, 60, 1800, 300),
       ProblemType("arm64inout", "codegrinder/armv8asm"),
       ProblemTypeAction("arm64inout", "grade", FALSE, 60, 120, 120),
       ProblemTypeAction("arm64inout", "test", TRUE, 60, 120, 120),
       ProblemTypeAction("arm64inout", "valgrind", TRUE, 60, 120, 120),
       ProblemTypeAction("arm64inout", "debug", TRUE, 60, 1800, 300),
       ProblemTypeAction("arm64inout", "run", TRUE, 60, 1800, 300),
       ProblemTypeAction("arm64inout", "step", TRUE, 60, 1800, 300),
       ProblemType("prologunittest", "codegrinder/prolog"),
       ProblemTypeAction("prologunittest", "grade", FALSE, 10, 20, 20),
       ProblemTypeAction("prologunittest", "test", TRUE, 10, 20, 20),
       ProblemTypeAction("prologunittest", "run", TRUE, 10, 1800, 300),
       ProblemTypeAction("prologunittest", "shell", TRUE, 10, 1800, 300),
       ProblemType("python3unittest", "codegrinder/python"),
       ProblemTypeAction("python3unittest", "grade", FALSE, 60, 120, 120),
       ProblemTypeAction("python3unittest", "test", TRUE, 60, 120, 120),
       ProblemTypeAction("python3unittest", "run", TRUE, 60, 1800, 300),
       ProblemTypeAction("python3unittest", "debug", TRUE, 60, 1800, 300),
       ProblemTypeAction("python3unittest", "shell", TRUE, 60, 1800, 300),
       ProblemTypeAction("python3unittest", "stylecheck", TRUE, 60, 120, 120),
       ProblemTypeAction("python3unittest", "stylefix", TRUE, 60, 120, 120),
       ProblemType("python3inout", "codegrinder/python"),
       ProblemTypeAction("python3inout", "grade", FALSE, 60, 120, 120),
       ProblemTypeAction("python3inout", "test", TRUE, 60, 120, 120),
       ProblemTypeAction("python3inout", "step", TRUE, 60, 240, 240),
       ProblemTypeAction("python3inout", "run", TRUE, 60, 1800, 300),
       ProblemTypeAction("python3inout", "debug", TRUE, 60, 1800, 300),
       ProblemTypeAction("python3inout", "shell", TRUE, 60, 1800, 300),
       ProblemTypeAction("python3inout", "stylecheck", TRUE, 60, 120, 120),
       ProblemTypeAction("python3inout", "stylefix", TRUE, 60, 120, 120),
       ProblemType("standardmlunittest", "codegrinder/standardml"),
       ProblemTypeAction("standardmlunittest", "grade", FALSE, 10, 20, 20),
       ProblemTypeAction("standardmlunittest", "test", TRUE, 10, 20, 20),
       ProblemTypeAction("standardmlunittest", "run", TRUE, 10, 1800, 300),
       ProblemTypeAction("standardmlunittest", "shell", TRUE, 10, 1800, 300),
       ProblemType("standardmlinout", "codegrinder/standardml"),
       ProblemTypeAction("standardmlinout", "grade", FALSE, 10, 20, 20),
       ProblemTypeAction("standardmlinout", "test", TRUE, 10, 20, 20),
       ProblemTypeAction("standardmlinout", "run", TRUE, 10, 1800, 300),
       ProblemTypeAction("standardmlinout", "step", TRUE, 10, 1800, 300),
       ProblemTypeAction("standardmlinout", "shell", TRUE, 10, 1800, 300),
       ProblemType("gounittest", "codegrinder/go"),
       ProblemTypeAction("gounittest", "grade", FALSE, 10, 20, 20),
       ProblemTypeAction("gounittest", "test", TRUE, 10, 20, 20),
       ProblemTypeAction("gounittest", "run", TRUE, 10, 1800, 300),
       ProblemType("cppunittest", "codegrinder/cpp"),
       ProblemTypeAction("cppunittest", "grade", FALSE, 60, 120, 120),
       ProblemTypeAction("cppunittest", "test", TRUE, 60, 120, 120),
       ProblemTypeAction("cppunittest", "valgrind", TRUE, 60, 120, 120),
       ProblemTypeAction("cppunittest", "debug", TRUE, 60, 1800, 300),
       ProblemTypeAction("cppunittest", "run", TRUE, 60, 1800, 300),
       ProblemType("nand2tetris", "codegrinder/nand2tetris"),
       ProblemTypeAction("nand2tetris", "grade", FALSE, 20, 20, 20),
       ProblemTypeAction("nand2tetris", "test", TRUE, 20, 20, 20),
       ProblemType("forthinout", "codegrinder/forth"),
       ProblemTypeAction("forthinout", "grade", FALSE, 10, 20, 20),
       ProblemTypeAction("forthinout", "test", TRUE, 10, 20, 20),
       ProblemTypeAction("forthinout", "run", TRUE, 10, 1800, 300),
       ProblemTypeAction("forthinout", "step", TRUE, 10, 1800, 300),
       ProblemTypeAction("forthinout", "shell", TRUE, 10, 1800, 300) >>

NoRow == ProblemTypeAction(EmptyString, EmptyString, FALSE, 0, 0, 0)

InitTable ==
    /\ tables = [problem_types |-> {}, problem_type_actions |-> {}]
    /\ tnext = 1
    /\ tconfig = NoRow

\* the next statement of the script inserts its row
ExecStatement ==
    /\ tnext <= Len(Statements)
    /\ LET row == Statements[tnext]
       IN  tables' = [tables EXCEPT ![row.table] = @ \cup {row}]
    /\ tnext' = tnext + 1
    /\ UNCHANGED <<regVars, taskVars, workerVars, requestVars, advanceVars, printVars, callVars, counterVars, gradeVars,
                   sessionVars, tconfig>>

\* a session is configured from the row of its problem type and action
LookupAction(row) ==
    /\ row \in tables.problem_type_actions
    /\ tconfig' = row
    /\ UNCHANGED <<regVars, taskVars, workerVars, requestVars, advanceVars, printVars, callVars, counterVars, gradeVars,
                   sessionVars, tables, tnext>>

NextTable ==
    \/ ExecStatement
    \/ \E row \in tables.problem_type_actions : LookupAction(row)

(* ----------------------------- call_function -------------------------- *)

\* the callee-saved registers call_function checks
SRegs == {"s0", "s1", "s2", "s3", "s4", "s5", "s6", "s7", "s8", "s9", "s10", "s11"}

\* the registers the prologue saves, by slot: tp at 8(sp), gp at 16(sp),
\* s11 at 24(sp), ..., s0 at 112(sp), ra at 120(sp)
SavedRegs ==
    <<"tp", "gp", "s11", "s10", "s9", "s8", "s7", "s6", "s5", "s4", "s3", "s2",
      "s1", "s0", "ra">>

\* the registers of the caller when it calls call_function with return
\* address ra and first argument a0
CallerRegs(ra, a0) ==
    [r \in SRegs \cup {"ra", "sp", "gp", "tp", "a0", "t0"} |->
        CASE r = "ra" -> ra
          [] r = "sp" -> 8192
          [] r = "gp" -> 600
          [] r = "tp" -> 700
          [] r = "a0" -> a0
          [] r = "t0" -> 0
          [] OTHER -> 800 + Len(r) + CHOOSE i \in 1..15 : SavedRegs[i] = r]

\* the stack words the model keeps: call_function's frame and the two
\* words above it
Addrs == {8192 - 128 + 8 * k : k \in 0..17}

\* the address jalr a4 leaves in ra
JalrReturn == 4096

\* what target may have done when it returns: left one callee-saved
\* register changed, left sp 16 bytes off, stored its ra or a register at
\* the sp it was entered with or into a slot above it, or called
\* call_function itself (which rewrites saved_sp); a0 is its return value
TargetBehaviours ==
    [clobber : SRegs \cup {"none"},
     spDelta : {0, 16},
     store : {"none", "ra at 0(sp)", "s0 at 112(sp)", "saved_sp"},
     a0 : {7, 8}]

InitCall ==
    /\ cregs = CallerRegs(0, 0)
    /\ cmem = [a \in Addrs |-> 0]
    /\ csaved = 0
    /\ cfpc = "caller"
    /\ cfout = [stderr |-> EmptyString, status |-> -1]
    /\ cfhist = [caller |-> CallerRegs(0, 0), entry |-> CallerRegs(0, 0),
                 exit |-> CallerRegs(0, 0), mem |-> [a \in Addrs |-> 0], saved |-> 0]

\* the caller's call, the prologue, the sentinel, the trashed registers and
\* jalr a4: target is entered
CallFunction(ra, a0) ==
    LET caller == CallerRegs(ra, a0)
        sp == caller.sp - 128
        sentinel == ra % 256
        frame == [a \in Addrs |->
                    IF a = sp THEN sentinel
                    ELSE IF a \in {sp + 8 * i : i \in 1..15}
                    THEN caller[SavedRegs[(a - sp) \div 8]]
                    ELSE cmem[a]]
        entry == [r \in DOMAIN caller |->
                    CASE r \in SRegs \cup {"t0"} -> sentinel
                      [] r = "sp" -> sp
                      [] r = "ra" -> JalrReturn
                      [] OTHER -> caller[r]]
    IN  /\ cfpc = "caller"
        /\ cregs' = entry
        /\ cmem' = frame
        /\ csaved' = sp
        /\ cfpc' = "target"
        /\ cfhist' = [cfhist EXCEPT !.caller = caller, !.entry = entry,
                                    !.mem = frame, !.saved = sp]
        /\ UNCHANGED <<regVars, taskVars, workerVars, requestVars, advanceVars, printVars, counterVars, gradeVars,
                       sessionVars, tableVars, cfout>>

\* target runs and returns to the address it was given
TargetReturns(b) ==
    LET exit == [r \in DOMAIN cregs |->
                    CASE r = b.clobber -> 99
                      [] r = "sp" -> cregs.sp + b.spDelta
                      [] r = "a0" -> b.a0
                      [] r = "t0" -> 99
                      [] OTHER -> cregs[r]]
    IN  /\ cfpc = "target"
        /\ cregs' = exit
        /\ cmem' = CASE b.store = "ra at 0(sp)" -> [cmem EXCEPT ![cregs.sp] = cregs.ra]
                     [] b.store = "s0 at 112(sp)" -> [cmem EXCEPT ![cregs.sp + 112] = 99]
                     [] OTHER -> cmem
        /\ csaved' = IF b.store = "saved_sp" THEN cregs.sp - 144 ELSE csaved
        /\ cfpc' = "check"
        /\ cfhist' = [cfhist EXCEPT !.exit = exit]
        /\ UNCHANGED <<regVars, taskVars, workerVars, requestVars, advanceVars, printVars, counterVars, gradeVars,
                       sessionVars, tableVars, cfout>>

\* a check that leaves out s11
RegistersPass_WithoutS11(regs, mem, saved) ==
    /\ regs.sp = saved
    /\ \A r \in SRegs \ {"s11"} : regs[r] = mem[regs.sp]

\* bne sp, t2, 1f; ld t0, 0(sp); bne s0, t0, 1f; ...; bne s11, t0, 1f
RegistersPass(regs, mem, saved) ==
    /\ regs.sp = saved
    /\ \A r \in SRegs : regs[r] = mem[regs.sp]

\* the checks after jalr: on to label 2, or to label 1
Check ==
    /\ cfpc = "check"
    /\ IF RegistersPass(cregs, cmem, csaved)
       THEN /\ cfpc' = "2"
            /\ cregs' = [cregs EXCEPT !.t0 = cmem[cregs.sp]]
       ELSE /\ cfpc' = "1"
            /\ UNCHANGED cregs
    /\ UNCHANGED <<regVars, taskVars, workerVars, requestVars, advanceVars, printVars, counterVars, gradeVars,
                   sessionVars, tableVars, cmem, csaved, cfout, cfhist>>

\* label 1: write(stderr, bad_register_msg) and exit(1)
BadRegister ==
    /\ cfpc = "1"
    /\ cfout' = [stderr |-> "bad_register_msg", status |-> 1]
    /\ cfpc' = "exited"
    /\ UNCHANGED <<regVars, taskVars, workerVars, requestVars, advanceVars, printVars, counterVars, gradeVars,
                   sessionVars, tableVars, cregs, cmem, csaved, cfhist>>

\* label 2: the postlude reloads the saved registers, releases the frame
\* and returns; a0 is left as target set it
Postlude ==
    /\ cfpc = "2"
    /\ cregs' = [r \in DOMAIN cregs |->
                    CASE r = "sp" -> cregs.sp + 128
                      [] r \in {"a0", "t0"} -> cregs[r]
                      [] OTHER ->
                           cmem[cregs.sp + 8 * (CHOOSE i \in 1..15 : SavedRegs[i] = r)]]
    /\ cfpc' = "returned"
    /\ UNCHANGED <<regVars, taskVars, workerVars, requestVars, advanceVars, printVars, counterVars, gradeVars,
                   sessionVars, tableVars, cmem, csaved, cfout, cfhist>>

NextCall ==
    \/ \E ra \in {4660, 4865}, a0 \in {3} : CallFunction(ra, a0)
    \/ \E b \in TargetBehaviours : TargetReturns(b)
    \/ Check
    \/ BadRegister
    \/ Postlude

\* the subsystems beside the registry, as they are after construction
(* ----------------------- the TA's request pipeline --------------------- *)

\* http.StatusBadRequest, http.StatusUnauthorized, http.StatusInternalServerError
StatusBadRequest == 400
StatusUnauthorized == 401
StatusInternalServerError == 500

\* the paths registered with r.Delete
DeleteRoutes ==
    {"/v2/problems/:problem_id", "/v2/problem_sets/:problem_set_id",
     "/v2/courses/:course_id", "/v2/users/:user_id",
     "/v2/assignments/:assignment_id", "/v2/commits/:commit_id"}

Route(method, path) == [method |-> method, path |-> path]

\* the DELETE routes, and one GET route of each other shape of chain
Routes ==
    {Route("DELETE", path) : path \in DeleteRoutes}
        \cup {Route("GET", "/v2/problems"), Route("GET", "/v2/problem_types"),
              Route("GET", "/v2/users/session")}

\* DELETE routes that go from the user's record straight to the handler
RouteChain_DeleteUnguarded(route) ==
    IF route.path = "/v2/users/session" THEN <<"handler">>
    ELSE IF route.path = "/v2/problem_types" THEN <<"auth", "withTx", "handler">>
    ELSE <<"withTx", "withCurrentUser", "handler">>

\* the handlers a route was registered with, after counter (which writes no
\* response and calls c.Next()); "handler" is the route's last handler
RouteChain(route) ==
    IF route.method = "DELETE"
    THEN <<"withTx", "withCurrentUser", "administratorOnly", "handler">>
    ELSE IF route.path = "/v2/users/session" THEN <<"handler">>
    ELSE IF route.path = "/v2/problem_types" THEN <<"auth", "withTx", "handler">>
    ELSE <<"withTx", "withCurrentUser", "handler">>

\* a request: its route, whether GetSession succeeds, what meddler.Load of
\* the session's user gives, and the Admin flag of that user
HTTPRequests ==
    {[route |-> route, session |-> session, load |-> load, admin |-> admin] :
        route \in Routes, session \in BOOLEAN,
        load \in {"ok", "norows", "dberror"}, admin \in BOOLEAN}
NoHTTPRequest == [route |-> Route("", ""), session |-> FALSE, load |-> "ok", admin |-> FALSE]

\* the transaction: its state, the status withTx read after c.Next(), and
\* whether withTx is waiting in c.Next()
NoTx == [state |-> "none", seen |-> 0, pending |-> FALSE]

\* statuses the last handler of a route answers with; 0: it writes nothing
HandlerStatuses == {0, 200, 399, 400, 404, 500}

InitRequest ==
    /\ rpc = "idle"
    /\ rreq = NoHTTPRequest
    /\ ridx = 0
    /\ rstatus = 0
    /\ rtx = NoTx
    /\ rlog = <<>>

\* martini's context.run: the handler at index is invoked unless a response
\* was written or the chain is at its end
ChainStopped == rstatus # 0 \/ ridx > Len(RouteChain(rreq.route))
Current ==
    IF rpc = "running" /\ ~ChainStopped THEN RouteChain(rreq.route)[ridx] ELSE "none"

\* a commit for every status that is not a server error
ShouldCommit_BelowServerError(status) == status < StatusInternalServerError

\* rw.Status() < http.StatusBadRequest
ShouldCommit(status) == status < StatusBadRequest

\* the router matches a request and starts its chain
ServeRequest(r) ==
    /\ rpc \in {"idle", "done"}
    /\ rpc' = "running"
    /\ rreq' = r
    /\ ridx' = 1
    /\ rstatus' = 0
    /\ rtx' = NoTx
    /\ rlog' = <<>>
    /\ UNCHANGED <<regVars, taskVars, workerVars, advanceVars, printVars, callVars, counterVars, gradeVars, sessionVars, tableVars>>

\* withTx up to c.Next(): db.Begin() and, on an error, the 500 and return
WithTxBegin(ok) ==
    /\ Current = "withTx"
    /\ rlog' = Append(rlog, "withTx")
    /\ IF ok
       THEN /\ rtx' = [state |-> "open", seen |-> 0, pending |-> TRUE]
            /\ ridx' = ridx + 1
            /\ UNCHANGED rstatus
       ELSE /\ rtx' = [NoTx EXCEPT !.state = "failed"]
            /\ rstatus' = StatusInternalServerError
            /\ UNCHANGED ridx
    /\ UNCHANGED <<regVars, taskVars, workerVars, advanceVars, printVars, callVars, counterVars, gradeVars, sessionVars, tableVars, rpc, rreq>>

\* auth: GetSession, and the 401 on an error
Auth ==
    /\ Current = "auth"
    /\ rlog' = Append(rlog, "auth")
    /\ IF rreq.session
       THEN ridx' = ridx + 1 /\ UNCHANGED rstatus
       ELSE rstatus' = StatusUnauthorized /\ UNCHANGED ridx
    /\ UNCHANGED <<regVars, taskVars, workerVars, advanceVars, printVars, callVars, counterVars, gradeVars, sessionVars, tableVars, rpc, rreq, rtx>>

\* withCurrentUser: GetSession, meddler.Load of the user, c.Map(user)
WithCurrentUser ==
    /\ Current = "withCurrentUser"
    /\ rlog' = Append(rlog, "withCurrentUser")
    /\ IF ~rreq.session \/ rreq.load = "norows"
       THEN rstatus' = StatusUnauthorized /\ UNCHANGED ridx
       ELSE IF rreq.load = "dberror"
       THEN rstatus' = StatusInternalServerError /\ UNCHANGED ridx
       ELSE ridx' = ridx + 1 /\ UNCHANGED rstatus
    /\ UNCHANGED <<regVars, taskVars, workerVars, advanceVars, printVars, callVars, counterVars, gradeVars, sessionVars, tableVars, rpc, rreq, rtx>>

\* administratorOnly: the 401 unless currentUser.Admin
AdministratorOnly ==
    /\ Current = "administratorOnly"
    /\ rlog' = Append(rlog, "administratorOnly")
    /\ IF rreq.admin
       THEN ridx' = ridx + 1 /\ UNCHANGED rstatus
       ELSE rstatus' = StatusUnauthorized /\ UNCHANGED ridx
    /\ UNCHANGED <<regVars, taskVars, workerVars, advanceVars, printVars, callVars, counterVars, gradeVars, sessionVars, tableVars, rpc, rreq, rtx>>

\* the route's last handler (DeleteProblem, ..., GetProblems, ...)
Handler(status) ==
    /\ Current = "handler"
    /\ rlog' = Append(rlog, "handler")
    /\ rstatus' = status
    /\ ridx' = ridx + 1
    /\ UNCHANGED <<regVars, taskVars, workerVars, advanceVars, printVars, callVars, counterVars, gradeVars, sessionVars, tableVars, rpc, rreq, rtx>>

\* withTx after c.Next() has returned: tx.Commit() or tx.Rollback(), and the
\* 500 on an error, which changes the header only if none was written
WithTxEnd(ok) ==
    /\ rpc = "running"
    /\ rtx.pending
    /\ ChainStopped
    /\ rtx' = [state |-> IF ShouldCommit(rstatus) THEN "committed" ELSE "rolledback",
               seen |-> rstatus, pending |-> FALSE]
    /\ rlog' = Append(rlog, IF ShouldCommit(rstatus) THEN "tx.Commit" ELSE "tx.Rollback")
    /\ rstatus' = IF ok \/ rstatus # 0 THEN rstatus ELSE StatusInternalServerError
    /\ UNCHANGED <<regVars, taskVars, workerVars, advanceVars, printVars, callVars, counterVars, gradeVars, sessionVars, tableVars, rpc, rreq, ridx>>

\* the chain has returned; net/http answers 200 if nothing was written
FinishRequest ==
    /\ rpc = "running"
    /\ ~rtx.pending
    /\ ChainStopped
    /\ rpc' = "done"
    /\ rstatus' = IF rstatus = 0 THEN 200 ELSE rstatus
    /\ UNCHANGED <<regVars, taskVars, workerVars, advanceVars, printVars, callVars, counterVars, gradeVars, sessionVars, tableVars, rreq, ridx, rtx, rlog>>

NextRequest ==
    \/ \E r \in HTTPRequests : ServeRequest(r)
    \/ \E ok \in BOOLEAN : WithTxBegin(ok)
    \/ Auth
    \/ WithCurrentUser
    \/ AdministratorOnly
    \/ \E status \in HandlerStatuses : Handler(status)
    \/ \E ok \in BOOLEAN : WithTxEnd(ok)
    \/ FinishRequest

(* ------------------------- print_n and print_set ----------------------- *)

\* the values print_set is called with: every combination of the bits below
\* MaxSetBits, and some with a higher bit
PrintInputs ==
    0..(2^MaxSetBits - 1) \cup {2^30, 2^30 + 2^9 + 2^1, 2^20 + 2^10 + 1}

\* return addresses of the caller of print_set
PrintReturnAddrs == {66000}

\* the stack below the caller's sp, which is address 0: print_set's frame is
\* -16..-1, print_n's frame is -32..-17; -1 in a cell: never written
StackAddrs == (-32)..(-1)

\* byte k of a doubleword, least significant first
RECURSIVE ByteOf(_, _)
ByteOf(word, k) == IF k = 0 THEN word % 256 ELSE ByteOf(word \div 256, k - 1)

\* the doubleword at an address
RECURSIVE LoadBytes(_, _, _)
LoadBytes(mem, addr, k) ==
    IF k = 0 THEN 0 ELSE mem[addr] + 256 * LoadBytes(mem, addr + 1, k - 1)

\* a test of the bit one position lower
BitSet_OffByOne(set, i) == (set \div 2^(i - 1)) % 2 = 1

\* li t0, 1; sll t1, t0, a2; and t2, a0, t1; beqz t2
BitSet(set, i) == (set \div 2^i) % 2 = 1

NoPrintRegs == [a0 |-> 0, a1 |-> 0, a2 |-> 0, sp |-> 0, ra |-> 0]
NoPrintOut == [set |-> 0, ra |-> 0, n |-> -1, loads |-> {}, stores |-> {}, writes |-> <<>>,
               exit |-> -1, ret |-> -1]

InitPrint ==
    /\ ppc = "idle"
    /\ pregs = NoPrintRegs
    /\ pmem = [a \in StackAddrs |-> -1]
    /\ pout = NoPrintOut

\* the call of print_set, its prelude, and the setup of its loop
PrintSetCall(set, ra) ==
    /\ ppc = "idle"
    /\ ppc' = "set.loop"
    /\ pregs' = [a0 |-> set, a1 |-> 0, a2 |-> 9, sp |-> pregs.sp - 16, ra |-> ra]
    /\ pmem' = [a \in StackAddrs |->
                    IF a \in (pregs.sp - 8)..(pregs.sp - 1)
                    THEN ByteOf(ra, a - (pregs.sp - 8)) ELSE pmem[a]]
    /\ pout' = [pout EXCEPT !.set = set, !.ra = ra]
    /\ UNCHANGED <<regVars, taskVars, workerVars, requestVars, advanceVars, callVars, counterVars, gradeVars, sessionVars, tableVars>>

\* one iteration of print_set's loop; the last one ends in jal print_n
PrintSetStep ==
    /\ ppc = "set.loop"
    /\ LET out == IF BitSet(pregs.a0, pregs.a2)
                  THEN pregs.a1 * 10 + pregs.a2 ELSE pregs.a1
           i == pregs.a2 - 1
       IN  IF i > 0
           THEN /\ pregs' = [pregs EXCEPT !.a1 = out, !.a2 = i]
                /\ UNCHANGED <<ppc, pout>>
           ELSE /\ pregs' = [pregs EXCEPT !.a0 = out, !.a1 = out, !.a2 = i]
                /\ ppc' = "n.entry"
                /\ pout' = [pout EXCEPT !.n = out]
    /\ UNCHANGED <<regVars, taskVars, workerVars, requestVars, advanceVars, callVars, counterVars, gradeVars, sessionVars, tableVars, pmem>>

\* print_n: addi sp, sp, -16; mv a1, sp; li a2, 10
PrintNEntry ==
    /\ ppc = "n.entry"
    /\ ppc' = "n.digits"
    /\ pregs' = [pregs EXCEPT !.sp = @ - 16, !.a1 = pregs.sp - 16, !.a2 = 10]
    /\ UNCHANGED <<regVars, taskVars, workerVars, requestVars, advanceVars, callVars, counterVars, gradeVars, sessionVars, tableVars, pmem, pout>>

\* one iteration of the loop that stores the digits, least significant
\* first; the last one sets up the loop that reverses them
PrintNDigit ==
    /\ ppc = "n.digits"
    /\ pmem' = [pmem EXCEPT ![pregs.a1] = (pregs.a0 % pregs.a2) + 48]
    /\ pout' = [pout EXCEPT !.stores = @ \cup {pregs.a1}]
    /\ LET n == pregs.a0 \div pregs.a2
           ptr == pregs.a1 + 1
       IN  IF n # 0
           THEN /\ pregs' = [pregs EXCEPT !.a0 = n, !.a1 = ptr]
                /\ UNCHANGED ppc
           ELSE /\ pregs' = [pregs EXCEPT !.a0 = pregs.sp, !.a1 = ptr - 1,
                                          !.a2 = ptr - pregs.sp]
                /\ ppc' = "n.swap"
    /\ UNCHANGED <<regVars, taskVars, workerVars, requestVars, advanceVars, callVars, counterVars, gradeVars, sessionVars, tableVars>>

\* one iteration of the loop that swaps the bytes at a0 and a1; the last
\* one sets up the write
PrintNSwap ==
    /\ ppc = "n.swap"
    /\ pmem' = [pmem EXCEPT ![pregs.a1] = pmem[pregs.a0], ![pregs.a0] = pmem[pregs.a1]]
    /\ pout' = [pout EXCEPT !.stores = @ \cup {pregs.a0, pregs.a1},
                             !.loads = @ \cup {pmem[pregs.a0], pmem[pregs.a1]}]
    /\ IF pregs.a0 + 1 < pregs.a1 - 1
       THEN /\ pregs' = [pregs EXCEPT !.a0 = @ + 1, !.a1 = @ - 1]
            /\ UNCHANGED ppc
       ELSE /\ pregs' = [pregs EXCEPT !.a0 = 1, !.a1 = pregs.sp]
            /\ ppc' = "n.write"
    /\ UNCHANGED <<regVars, taskVars, workerVars, requestVars, advanceVars, callVars, counterVars, gradeVars, sessionVars, tableVars>>

\* the write system call and what follows it: the return to print_set, or
\* the exit with the error number
PrintNWrite(result) ==
    /\ ppc = "n.write"
    /\ pout' = [pout EXCEPT
            !.writes = Append(@, [fd |-> pregs.a0,
                                  bytes |-> [k \in 1..pregs.a2 |-> pmem[pregs.a1 + k - 1]]]),
            !.exit = IF result >= 0 THEN -1 ELSE -result]
    /\ IF result >= 0
       THEN /\ pregs' = [pregs EXCEPT !.a0 = result, !.sp = @ + 16]
            /\ ppc' = "set.return"
       ELSE /\ pregs' = [pregs EXCEPT !.a0 = -result]
            /\ ppc' = "exit"
    /\ UNCHANGED <<regVars, taskVars, workerVars, requestVars, advanceVars, callVars, counterVars, gradeVars, sessionVars, tableVars, pmem>>

\* print_set's postlude: ld ra, 8(sp); addi sp, sp, 16; ret
PrintSetReturn ==
    /\ ppc = "set.return"
    /\ LET ra == LoadBytes(pmem, pregs.sp + 8, 8)
       IN  /\ pregs' = [pregs EXCEPT !.ra = ra, !.sp = @ + 16]
           /\ pout' = [pout EXCEPT !.ret = ra]
    /\ ppc' = "done"
    /\ UNCHANGED <<regVars, taskVars, workerVars, requestVars, advanceVars, callVars, counterVars, gradeVars, sessionVars, tableVars, pmem>>

\* results of the write system call: all bytes written, or -EBADF, -EIO
WriteResults(len) == {len, -9, -5}

NextPrint ==
    \/ \E set \in PrintInputs, ra \in PrintReturnAddrs : PrintSetCall(set, ra)
    \/ PrintSetStep
    \/ PrintNEntry
    \/ PrintNDigit
    \/ PrintNSwap
    \/ \E result \in WriteResults(pregs.a2) : PrintNWrite(result)
    \/ PrintSetReturn

InitExt ==
    /\ InitCounter
    /\ InitGrade
    /\ InitSession
    /\ InitTable
    /\ InitCall
    /\ InitRequest
    /\ InitAdvance
    /\ InitPrint

InitTasks ==
    /\ lock = NoTask
    /\ pc = [t \in Tasks |-> "idle"]
    /\ req = [t \in Tasks |-> NoRequest]

InitWorker ==
    /\ wconf = WorkerConfig(DaycareSecret, FALSE)
    /\ wrole = "setup"
    /\ wpc = "start"
    /\ wreg = NoReg
    /\ wstatus = EmptyString
    /\ wslept = 0
    /\ wcount = 0

\* func init(): the registry is an empty map
Init ==
    /\ now = Epoch
    /\ daycares = <<>>
    /\ ret = NoRet
    /\ lastAccepted = [h \in Hosts |-> NoReg]
    /\ InitTasks
    /\ InitExt
    /\ InitWorker

Next ==
    \/ \E d \in TickSteps : Tick(d)
    \/ Expire
    \/ \E reg \in FleetRegs(now) : Insert(reg)
    \/ \E problemType \in AskedTypes : Assign(problemType)
    \/ GetRegistrations
    \/ \E reg \in FleetRegs(now) : PostRegistration(reg)

Spec == Init /\ [][Next]_vars

(* ------------------- specification of Insert's checks ------------------ *)

\* offsets of a registration's timestamp from the TA clock, around the
\* one-minute drift limit on both sides
DriftOffsets ==
    {0} \cup {sgn * d : sgn \in {-1, 1},
                        d \in {Minute - Second, Minute, Minute + 1, Minute + Second}}

\* signatures a registration arrives with: the daycare's, one made with
\* another secret, one made for a different capacity, and none
SignatureChoices(reg) ==
    { ComputeSignature(reg, DaycareSecret),
      ComputeSignature(reg, OtherSecret),
      ComputeSignature([reg EXCEPT !.Capacity = @ + 1], DaycareSecret),
      <<>> }

\* the configurations Insert's checks are exercised with
InsertConfigs ==
    { <<"A", <<"python34unittest", "gounittest">>, MaxCapacity>>,
      <<"B", <<"gounittest">>, 1>> }

\* every registration the TA is sent at time t
AllRegs(t) ==
    UNION { LET reg == DaycareRegistration(c[1], c[2], c[3], t + off, v, <<>>)
            IN  {[reg EXCEPT !.Signature = sig] : sig \in SignatureChoices(reg)} :
            c \in InsertConfigs, off \in DriftOffsets, v \in {CurrentVersion, OldVersion} }

NextInsert ==
    \/ Expire
    \/ \E reg \in AllRegs(now) : Insert(reg)
    \/ \E reg \in AllRegs(now) : PostRegistration(reg)

SpecInsert == Init /\ [][NextInsert]_vars

(* ---------------------- specification of Assign ------------------------ *)

\* sorted problem-type lists of stored registrations
StoredLists ==
    { <<"python27unittest">>,
      <<"gounittest", "python27unittest", "python34unittest">> }

\* entries as Insert stores them under hostname h
StoredEntries(h) ==
    {DaycareRegistration(h, pts, cap, Epoch, EmptyString, <<>>) :
        pts \in StoredLists, cap \in 1..MaxCapacity}

\* registries over the three hosts
Registries ==
    UNION { {m \in [D -> UNION {StoredEntries(h) : h \in D}] :
                \A h \in D : m[h].Hostname = h} : D \in SUBSET Hosts }

InitAssign ==
    /\ now = Epoch
    /\ daycares \in Registries
    /\ ret = NoRet
    /\ lastAccepted = [h \in Hosts |->
                          IF h \in DOMAIN daycares THEN daycares[h] ELSE NoReg]
    /\ InitTasks
    /\ InitExt
    /\ InitWorker

\* one call of Assign on each registry
NextAssign ==
    /\ ret = NoRet
    /\ \E problemType \in AskedTypes : Assign(problemType)

SpecAssign == InitAssign /\ [][NextAssign]_vars

(* ------------------- concurrent requests on the TA --------------------- *)

\* requests that arrive at time t
Requests(t) ==
    {Request("GET", NoReg, EmptyString)}
    \cup {Request("POST", SignedWith(h, <<"gounittest">>, 1, t, CurrentVersion, DaycareSecret),
                  EmptyString) : h \in {"A", "B"}}
    \cup {Request("Assign", NoReg, "gounittest")}

At(t, position) == [pc EXCEPT ![t] = position]

\* the first registry method a handler calls
FirstCall(kind) == IF kind = "Assign" THEN "Assign.Lock" ELSE "Expire.Lock"

\* the handler's position after daycareRegistrations.Expire() has returned
AfterExpire(kind) == IF kind = "GET" THEN "Expire.returned" ELSE "Insert.Lock"

\* a request arrives and its handler starts in a task of its own
Arrive(t, r) ==
    /\ pc[t] = "idle"
    /\ req' = [req EXCEPT ![t] = r]
    /\ pc' = At(t, FirstCall(r.kind))
    /\ UNCHANGED <<extVars, regVars, lock, workerVars>>

\* m.Lock() at the top of Expire, Insert and Assign
Lock(t) ==
    /\ pc[t] \in {"Expire.Lock", "Insert.Lock", "Assign.Lock"}
    /\ lock = NoTask
    /\ lock' = t
    /\ pc' = At(t, CASE pc[t] = "Expire.Lock" -> "Expire.body"
                      [] pc[t] = "Insert.Lock" -> "Insert.body"
                      [] pc[t] = "Assign.Lock" -> "Assign.body")
    /\ UNCHANGED <<extVars, regVars, req, workerVars>>

\* the body of Expire and its deferred m.Unlock()
ExpireBody(t) ==
    /\ pc[t] = "Expire.body"
    /\ daycares' = ExpireMap(daycares, now)
    /\ lock' = NoTask
    /\ pc' = At(t, AfterExpire(req[t].kind))
    /\ UNCHANGED <<extVars, now, ret, lastAccepted, req, workerVars>>

\* the body of Insert and its deferred m.Unlock(); the POST handler returns
InsertBody(t) ==
    LET reg == req[t].reg
        err == InsertError(reg, now)
    IN  /\ pc[t] = "Insert.body"
        /\ daycares' = InsertMap(daycares, reg, now)
        /\ lastAccepted' = Accept(reg, now)
        /\ ret' = [NoRet EXCEPT !.op = "POST", !.reg = reg, !.err = err,
                                !.added = LogsAdded(daycares, reg, now),
                                !.status = PostStatus(err)]
        /\ lock' = NoTask
        /\ pc' = At(t, "idle")
        /\ req' = [req EXCEPT ![t] = NoRequest]
        /\ UNCHANGED <<extVars, now, workerVars>>

\* the body of Assign and its deferred m.Unlock()
AssignBody(t) ==
    /\ pc[t] = "Assign.body"
    /\ LET orders == Orders(daycares)
       IN  \E order1 \in orders :
            LET total == TotalWeight(daycares, req[t].pt, order1)
            IN  \E order2 \in orders, point \in (IF total = 0 THEN {0} ELSE Intn(total)) :
                    LET r == AssignResult(daycares, req[t].pt, order1, order2, point)
                    IN  /\ ret' = [NoRet EXCEPT !.op = "Assign", !.pt = req[t].pt,
                                                !.host = r.host, !.err = r.err]
                        /\ lock' = NoTask
                        /\ pc' = At(t, "idle")
                        /\ req' = [req EXCEPT ![t] = NoRequest]
                        /\ UNCHANGED <<extVars, now, daycares, lastAccepted, workerVars>>

\* the GET handler starts render.JSON on daycareRegistrations.daycares
RenderBegin(t) ==
    /\ pc[t] = "Expire.returned"
    /\ pc' = At(t, "render.JSON")
    /\ UNCHANGED <<extVars, regVars, lock, req, workerVars>>

\* render.JSON has encoded the map; the GET handler returns
RenderEnd(t) ==
    /\ pc[t] = "render.JSON"
    /\ ret' = [NoRet EXCEPT !.op = "GET", !.status = 200, !.body = daycares]
    /\ pc' = At(t, "idle")
    /\ req' = [req EXCEPT ![t] = NoRequest]
    /\ UNCHANGED <<extVars, now, daycares, lastAccepted, lock, workerVars>>

\* positions at which a task reads or writes the map
ReadsMap(t) == pc[t] \in {"Expire.body", "Assign.body", "render.JSON"}
WritesMap(t) == pc[t] \in {"Expire.body", "Insert.body"}

NextConc ==
    \/ \E t \in Tasks, r \in Requests(now) : Arrive(t, r)
    \/ \E t \in Tasks : Lock(t)
    \/ \E t \in Tasks : ExpireBody(t)
    \/ \E t \in Tasks : InsertBody(t)
    \/ \E t \in Tasks : AssignBody(t)
    \/ \E t \in Tasks : RenderBegin(t)
    \/ \E t \in Tasks : RenderEnd(t)
    \/ Tick(2 * daycareRegistrationInterval + 1)

SpecConc == Init /\ [][NextConc]_vars

(* ------------------ the daycare's registration goroutine --------------- *)

\* the registration built at the top of the loop, signed with the
\* daycare's secret
BuildRegistration(conf, t) ==
    SignedWith(conf.Hostname, conf.ProblemTypes, conf.Capacity, t,
               CurrentVersion, conf.DaycareSecret)

\* outcomes of http.DefaultClient.Do: an error, or the TA's response
Outcomes == {"error", "response"}

\* a loop that gives up when the TA cannot be reached
AfterAttempt_StopOnError(outcome) == IF outcome = "error" THEN "exit" ELSE "sleep"

\* where the loop goes after an attempt: time.Sleep at the end of the body
AfterAttempt(outcome) == "sleep"

\* the status variable after an attempt
StatusAfter(outcome, statusCode) ==
    IF outcome = "response" /\ statusCode = 200 THEN "succeeded" ELSE "failed"

\* config files a daycare is started with: with or without problem types,
\* and with a negative, a zero or a positive capacity
WorkerConfigs ==
    {[WorkerConfig(secret, ta) EXCEPT !.ProblemTypes = pts, !.Capacity = cap] :
        secret \in {DaycareSecret, OtherSecret}, ta \in BOOLEAN,
        pts \in {<<>>, <<"python34unittest", "gounittest">>},
        cap \in {-1, 0, 1, MaxCapacity}}

\* a setup that accepts any capacity
ConfigError_NoCapacityCheck(conf) ==
    IF Len(conf.ProblemTypes) = 0
    THEN "cannot run Daycare role with no problemTypes in the config file"
    ELSE NoError

\* the checks of the config file when the daycare role is set up
ConfigError(conf) ==
    IF Len(conf.ProblemTypes) = 0
    THEN "cannot run Daycare role with no problemTypes in the config file"
    ELSE IF conf.Capacity <= 0
    THEN "Daycare capacity must be greater than zero"
    ELSE NoError

\* the daycare role is set up: log.Fatalf ends the process on a bad config
\* file, otherwise the registration goroutine is started
DaycareSetup ==
    /\ wrole = "setup"
    /\ wrole' = IF ConfigError(wconf) = NoError THEN "running" ELSE "fatal"
    /\ UNCHANGED <<extVars, regVars, taskVars, wconf, wpc, wreg, wstatus, wslept, wcount>>

\* registrations someone without the TA's secret posts to pass for the
\* daycare: its last registration with the capacity set to zero, as signed
\* or signed again with another secret
Forgeries(reg) ==
    LET zero == [reg EXCEPT !.Capacity = 0]
    IN  {zero, [zero EXCEPT !.Signature = ComputeSignature(zero, "forged")]}

\* the TA's POST handler answers a forged registration
ForgedPost(reg) ==
    LET live == ExpireMap(daycares, now)
        err == InsertError(reg, now)
    IN  /\ daycares' = InsertMap(live, reg, now)
        /\ lastAccepted' = Accept(reg, now)
        /\ ret' = [NoRet EXCEPT !.op = "POST (forged)", !.reg = reg, !.err = err,
                                !.added = LogsAdded(live, reg, now),
                                !.status = PostStatus(err)]
        /\ UNCHANGED <<extVars, now, taskVars, workerVars>>

\* the daycare and the TA run with or without the same secret, and in one
\* process or in two
InitWorkerRun ==
    /\ now = Epoch
    /\ daycares = <<>>
    /\ ret = NoRet
    /\ lastAccepted = [h \in Hosts |-> NoReg]
    /\ InitTasks
    /\ InitExt
    /\ wconf \in WorkerConfigs
    /\ wrole = "setup"
    /\ wpc = "start"
    /\ wreg = NoReg
    /\ wstatus = EmptyString
    /\ wslept = Epoch
    /\ wcount = 0

\* the goroutine enters the loop, after two seconds if the process is also
\* the TA, and builds its first registration
WorkerStart ==
    /\ wrole = "running"
    /\ wpc = "start"
    /\ wconf.ta => now >= wslept + 2 * Second
    /\ wreg' = BuildRegistration(wconf, now)
    /\ wcount' = wcount + 1
    /\ wpc' = "post"
    /\ UNCHANGED <<extVars, regVars, taskVars, wconf, wrole, wstatus, wslept>>

\* the POST fails to connect
WorkerPostError ==
    /\ wpc = "post"
    /\ wstatus' = StatusAfter("error", 0)
    /\ wpc' = AfterAttempt("error")
    /\ wslept' = now
    /\ UNCHANGED <<extVars, regVars, taskVars, wconf, wrole, wreg, wcount>>

\* the POST reaches the TA, whose handler answers it
WorkerPostResponse ==
    LET live == ExpireMap(daycares, now)
        err == InsertError(wreg, now)
        statusCode == PostStatus(err)
    IN  /\ wpc = "post"
        /\ daycares' = InsertMap(live, wreg, now)
        /\ lastAccepted' = Accept(wreg, now)
        /\ ret' = [NoRet EXCEPT !.op = "POST", !.reg = wreg, !.err = err,
                                !.added = LogsAdded(live, wreg, now),
                                !.status = statusCode]
        /\ wstatus' = StatusAfter("response", statusCode)
        /\ wpc' = AfterAttempt("response")
        /\ wslept' = now
        /\ UNCHANGED <<extVars, now, taskVars, wconf, wrole, wreg, wcount>>

\* time.Sleep(daycareRegistrationInterval) returns and the next iteration
\* builds a new registration
WorkerWake ==
    /\ wpc = "sleep"
    /\ now >= wslept + daycareRegistrationInterval
    /\ wreg' = BuildRegistration(wconf, now)
    /\ wcount' = wcount + 1
    /\ wpc' = "post"
    /\ UNCHANGED <<extVars, regVars, taskVars, wconf, wrole, wstatus, wslept>>

\* http.DefaultClient.Do: the request stays in flight for more than a
\* minute before the TA's handler runs
WorkerPostStalls ==
    /\ wpc = "post"
    /\ now <= MaxNow
    /\ now' = now + Minute + 1
    /\ ret' = [NoRet EXCEPT !.op = "Tick"]
    /\ UNCHANGED <<extVars, daycares, lastAccepted, taskVars, workerVars>>

WorkerTickSteps == {2 * Second, daycareRegistrationInterval}

NextWorker ==
    \/ DaycareSetup
    \/ \E reg \in (IF wreg = NoReg THEN {} ELSE Forgeries(wreg)) : ForgedPost(reg)
    \/ WorkerStart
    \/ WorkerPostError
    \/ WorkerPostResponse
    \/ WorkerWake
    \/ WorkerPostStalls
    \/ \E d \in WorkerTickSteps : Tick(d)
    \/ GetRegistrations

SpecWorker == InitWorkerRun /\ [][NextWorker]_vars

\* requests passing through the counter middleware
SpecCounter == Init /\ [][NextCounter]_vars

\* one run of the grade command
SpecGrade == Init /\ [][NextGrade]_vars

\* one session on the worker
SpecSession == Init /\ [][NextSession]_vars

\* the setup script runs, and sessions are configured from its rows
SpecTable == Init /\ [][NextTable]_vars

\* one call of call_function
SpecCall == Init /\ [][NextCall]_vars
SpecRequest == Init /\ [][NextRequest]_vars
SpecPrint == Init /\ [][NextPrint]_vars

(* ------------------------------ properties ----------------------------- *)

Serves(elt, problemType) == problemType \in Range(elt.ProblemTypes)
InsertReturned == ret.op \in {"Insert", "POST"}
Accepted == InsertReturned /\ ret.err = NoError

\* C1: Insert accepts a registration exactly when its signature is the HMAC
\* recomputed with the TA's secret, its version is the current version and its
\* timestamp is within 60 seconds of the TA clock; on acceptance the registry
\* maps the registration's hostname to it, otherwise an error is returned.
C1_InsertAcceptsIffChecksHold ==
    ret.op = "Insert" =>
        LET reg == ret.reg
            checks == /\ reg.Signature = ComputeSignature(reg, DaycareSecret)
                      /\ reg.Version = CurrentVersion
                      /\ Abs(now - reg.Time) <= 60 * Second
        IN  /\ (ret.err = NoError) <=> checks
            /\ checks =>
                  /\ reg.Hostname \in DOMAIN daycares
                  /\ daycares[reg.Hostname].Hostname = reg.Hostname
                  /\ daycares[reg.Hostname].Capacity = reg.Capacity
                  /\ Range(daycares[reg.Hostname].ProblemTypes) = Range(reg.ProblemTypes)
            /\ ~checks => ret.err \in {"signature mismatch", "version mismatch",
                                       "time drift is too great"}

\* C1 witness: a registration is accepted although its timestamp differs
\* from the TA clock
C1_Witness ==
    /\ ret.op = "Insert"
    /\ ret.err = NoError
    /\ ret.reg.Time # now
    /\ ret.reg.Hostname \in DOMAIN daycares

\* C7: a correctly signed, current-version registration 61 seconds away from
\* the TA clock is rejected, one 59 seconds or exactly 60 seconds away is
\* accepted, in the future as in the past.
C7_DriftBoundary ==
    (/\ ret.op = "Insert"
     /\ ret.reg.Signature = ComputeSignature(ret.reg, DaycareSecret)
     /\ ret.reg.Version = CurrentVersion) =>
        \A sgn \in {-1, 1} :
            /\ now - ret.reg.Time = sgn * 61 * Second => ret.err = "time drift is too great"
            /\ now - ret.reg.Time = sgn * 59 * Second => ret.err = NoError
            /\ now - ret.reg.Time = sgn * 60 * Second => ret.err = NoError

\* C7 witness: a registration stamped exactly 60 seconds in the future is accepted
C7_Witness ==
    /\ ret.op = "Insert"
    /\ ret.reg.Time - now = 60 * Second
    /\ ret.err = NoError

\* C2 as claimed: neither the GET response nor a hostname returned by Assign
\* comes from a registration older than 2*T_reg.
C2_ReadsNeverStale ==
    /\ ret.op = "GET" =>
          \A h \in DOMAIN ret.body : now - ret.body[h].Time <= 20 * Second
    /\ (ret.op = "Assign" /\ ret.err = NoError) =>
          now - daycares[ret.host].Time <= 20 * Second

\* C3: a hostname returned by Assign is a key of the registry whose
\* registration lists the problem type asked for.
C3_AssignedHostServesType ==
    (ret.op = "Assign" /\ ret.err = NoError) =>
        /\ ret.host \in DOMAIN daycares
        /\ Serves(daycares[ret.host], ret.pt)

\* C3 witness: Assign returns a host from a registry that also holds a host
\* not serving the type
C3_Witness ==
    /\ ret.op = "Assign"
    /\ ret.err = NoError
    /\ ret.host \in DOMAIN daycares
    /\ \E h \in DOMAIN daycares : ~Serves(daycares[h], ret.pt)

\* C4: Assign returns the no-eligible-daycare error and an empty hostname
\* exactly when no registration serves the problem type; otherwise it returns
\* a hostname and no error.
C4_NoEligibleIffNoneServes ==
    ret.op = "Assign" =>
        LET served == \E h \in DOMAIN daycares : Serves(daycares[h], ret.pt)
        IN  /\ ~served <=> (ret.err = "no eligible daycare found" /\ ret.host = EmptyString)
            /\ served => (ret.err = NoError /\ ret.host # EmptyString)

\* C4 witness: the error is returned on a registry that is not empty
C4_Witness ==
    /\ ret.op = "Assign"
    /\ ret.err = "no eligible daycare found"
    /\ Cardinality(DOMAIN daycares) >= 2

\* C5: for every iteration order, the number of picks in [0, W) for which
\* the walk returns host h is the capacity of h when h serves the type, and
\* zero otherwise.
C5_PicksPerHostEqualCapacity ==
    ret.op = "Assign" =>
        \A order \in Orders(daycares) :
            LET W == TotalWeight(daycares, ret.pt, order)
            IN  \A h \in DOMAIN daycares :
                    Cardinality({p \in Intn(W) :
                        Walk(daycares, ret.pt, order, p, 0) = [host |-> h, err |-> NoError]})
                    = IF Serves(daycares[h], ret.pt) THEN daycares[h].Capacity ELSE 0

\* C5 witness: capacities {A: 3, B: 1}, both serving the type, and B is picked
C5_Witness ==
    /\ ret.op = "Assign"
    /\ DOMAIN daycares = {"A", "B"}
    /\ daycares["A"].Capacity = 3 /\ Serves(daycares["A"], ret.pt)
    /\ daycares["B"].Capacity = 1 /\ Serves(daycares["B"], ret.pt)
    /\ ret.host = "B"

\* C8: every key of the registry equals the hostname of its entry, and the
\* entry of a hostname is the registration last accepted for that hostname;
\* an accepted Insert stores its registration under its hostname.
C8_RegistryHoldsLatest ==
    /\ \A h \in DOMAIN daycares :
            /\ daycares[h].Hostname = h
            /\ daycares[h] = lastAccepted[h]
    /\ Accepted =>
            /\ ret.reg.Hostname \in DOMAIN daycares
            /\ daycares[ret.reg.Hostname].Capacity = ret.reg.Capacity
            /\ Range(daycares[ret.reg.Hostname].ProblemTypes) = Range(ret.reg.ProblemTypes)
            /\ daycares[ret.reg.Hostname].Time = now

\* C8 witness: an accepted Insert replaces the entry of a hostname by one
\* with another capacity while another hostname keeps its older entry
C8_Witness ==
    /\ ret.op = "Insert"
    /\ ret.err = NoError
    /\ ~ret.added
    /\ ret.reg.Hostname = "A"
    /\ lastAccepted["A"].Capacity = 1
    /\ "B" \in DOMAIN daycares
    /\ daycares["B"].Time < now

\* C9: an entry leaves the registry only in a step taken more than 2*T_reg
\* after the last accepted registration of its hostname, so a worker accepted
\* every T_reg is never removed; and after an Expire no hostname whose last
\* accepted registration is older than 2*T_reg is in the registry.
C9_StaysWhileRefreshed ==
    /\ [][\A h \in DOMAIN daycares :
            h \notin DOMAIN daycares' =>
                now - lastAccepted[h].Time > 2 * daycareRegistrationInterval]_vars
    /\ [](ret.op \in {"Expire", "GET", "POST"} =>
            \A h \in Hosts :
                (lastAccepted[h] # NoReg
                 /\ now - lastAccepted[h].Time > 2 * daycareRegistrationInterval)
                    => h \notin DOMAIN daycares)

\* C9 witness: after an Expire a worker refreshed one interval ago is still
\* registered while a worker that stopped registering is gone
C9_Witness ==
    /\ ret.op = "Expire"
    /\ "A" \in DOMAIN daycares
    /\ now - lastAccepted["A"].Time <= daycareRegistrationInterval + 1
    /\ now - lastAccepted["A"].Time > 0
    /\ lastAccepted["B"] # NoReg
    /\ "B" \notin DOMAIN daycares

\* C6 as claimed: in no interleaving does one task read the registry map
\* while another task is inside Expire or Insert mutating it.
C6_NoReadDuringMutation ==
    \A t \in Tasks, u \in Tasks :
        ~(t # u /\ pc[t] = "render.JSON" /\ WritesMap(u))

\* C10: no attempt ends the loop; after every attempt the goroutine sleeps,
\* and it leaves the sleep only T_reg later, with a new registration that
\* carries the time of that moment and a signature computed over it.
C10_LoopNeverStops ==
    /\ [](wpc \in {"start", "post", "sleep"})
    /\ [][wpc = "post" /\ wpc' # "post" => wpc' = "sleep" /\ wslept' = now]_vars
    /\ [][wpc = "sleep" /\ wpc' # "sleep" =>
            /\ wpc' = "post"
            /\ now >= wslept + 10 * Second
            /\ wcount' = wcount + 1
            /\ wreg'.Time = now
            /\ wreg'.Signature = ComputeSignature(wreg', wconf.DaycareSecret)]_vars

\* C10 witness: after a failed attempt the goroutine has built its third
\* registration, two registration intervals after the first
C10_Witness ==
    /\ wpc = "post"
    /\ wcount >= 3
    /\ wstatus = "failed"
    /\ wreg.Time >= Epoch + 2 * daycareRegistrationInterval

C12_RejectedInsertChangesNothing ==
    [][(ret'.op = "Insert" /\ ret'.err # NoError) =>
            /\ daycares' = daycares
            /\ lastAccepted' = lastAccepted
            /\ now' = now]_vars

\* C12 witness: a registration with a bad signature was rejected while its
\* hostname had an entry, and the entry is still the one last accepted
C12_Witness ==
    /\ ret.op = "Insert"
    /\ ret.err = "signature mismatch"
    /\ ret.reg.Hostname \in DOMAIN daycares
    /\ daycares[ret.reg.Hostname] = lastAccepted[ret.reg.Hostname]
    /\ ret.reg.Time # daycares[ret.reg.Hostname].Time

\* C13: a registration the daycare loop built and signed with secret S at
\* the current version is accepted by the TA when the TA holds the same
\* secret and the request arrives within 60 seconds of its timestamp; when
\* the TA holds another secret it is rejected with a signature mismatch.
C13_SignedByLoopAcceptedByInsert ==
    ret.op = "POST" =>
        LET reg == ret.reg
        IN  /\ reg.Version = CurrentVersion
            /\ reg.Signature = ComputeSignature(reg, wconf.DaycareSecret)
            /\ (wconf.DaycareSecret = DaycareSecret /\ now - reg.Time <= 60 * Second)
                    => (ret.err = NoError /\ ret.status = 200)
            /\ wconf.DaycareSecret # DaycareSecret
                    => (ret.err = "signature mismatch" /\ ret.status = 400)

\* C13 witness: the loop's registration is accepted some seconds after it
\* was built
C13_Witness ==
    /\ ret.op = "POST"
    /\ ret.err = NoError
    /\ now - ret.reg.Time >= 2 * Second
    /\ wconf.DaycareSecret = DaycareSecret

\* C14 as claimed: once all N requests have left the counter middleware, the
\* hit count is N, the accumulated total is the sum of their durations, and
\* the published average is that sum divided by N.
C14_NoUpdateLost ==
    (cfinished.n > 0 /\ \A t \in Tasks : cpc[t] = "idle") =>
        /\ metrics.hits = cfinished.n
        /\ expvars.hits = cfinished.n
        /\ metrics.totalSeconds = cfinished.sum
        /\ expvars.totalSeconds = cfinished.sum
        /\ expvars.averageSeconds.num * cfinished.n
                = cfinished.sum * expvars.averageSeconds.den

\* C15: the grade command sends its requests in a fixed order: its own
\* unsigned bundle to the TA, then the bundle the TA returned to the daycare,
\* then the bundle the daycare returned to the TA's signed endpoint, which is
\* never contacted before the daycare has answered; and it decides between
\* pass and fail on the commit the TA returned from the signed post.
C15_ThreeHopsInOrder ==
    /\ Len(glog) <= 3
    /\ \A i \in DOMAIN glog : glog[i].to = <<"ta/unsigned", "daycare", "ta/signed">>[i]
    /\ Len(glog) >= 1 => glog[1].sent = gbundles.unsigned /\ glog[1].sent.origin = "grind"
    /\ Len(glog) >= 2 => glog[2].sent = gbundles.signed /\ glog[2].sent.origin = "ta/unsigned"
    /\ Len(glog) >= 3 => glog[3].sent = gbundles.graded /\ glog[3].sent.origin = "daycare"
    /\ gresult \in {"passed", "failed"} =>
            /\ Len(glog) = 3
            /\ gbundles.saved.origin = "ta/signed"
            /\ gresult = "passed" <=>
                    (gbundles.saved.reportCard = "passed" /\ gbundles.saved.score = 1)

\* C15 witness: the command decides on a failure although the bundle the
\* daycare returned carried a passed report card and a full score
C15_Witness ==
    /\ gresult = "failed"
    /\ Len(glog) = 3
    /\ gbundles.graded.reportCard = "passed"
    /\ gbundles.graded.score = 1

\* C16: a session that has ended by a normal finish, a client disconnect, a
\* deadline or a worker error has had Destroy() called on its container
\* exactly once; Destroy() is never called twice, and a container exists only
\* while its session is open.
C16_DestroyExactlyOnce ==
    /\ (spc = "Closed" /\ sclose.cause \in {"normal finish", "client disconnect",
                                            "session deadline", "worker error"}) =>
            (sdestroys = 1 /\ sbox = "destroyed")
    /\ sdestroys <= 1
    /\ sbox = "created" => spc \in {"FilesMaterialized", "Executing", "Exited"}
    /\ spc = "Closed" => sbox # "created"

\* C16 witness: the session deadline ended a session during its second exec,
\* after the per-step deadline had killed the first
C16_Witness ==
    /\ spc = "Closed"
    /\ sclose.cause = "session deadline"
    /\ sstep = 2
    /\ sdestroys = 1
    /\ \E k \in DOMAIN sframes.wire : sframes.wire[k].arg = "killed:deadline"

\* C17: on the wire and in the transcript the exec and exit frames
\* alternate, starting with exec(1): exec(i) comes before exit(i), which
\* comes before exec(i+1).
C17_ExecExitAlternate ==
    \A frames \in {sframes.wire, sframes.transcript} :
        LET IsStep(f) == f.tag \in {"exec", "exit"}
            ee == SelectSeq(frames, IsStep)
        IN  \A k \in DOMAIN ee :
                /\ ee[k].tag = (IF k % 2 = 1 THEN "exec" ELSE "exit")
                /\ ee[k].step = (k + 1) \div 2

\* C17 witness: two steps have run and the second has exited
C17_Witness ==
    /\ Len(sframes.wire) = 4
    /\ sframes.wire[3].tag = "exec" /\ sframes.wire[3].step = 2
    /\ sframes.wire[4].tag = "exit" /\ sframes.wire[4].step = 2
    /\ sframes.transcript = sframes.wire

\* C18: when the problemSignature of the first frame is not the HMAC the
\* worker recomputes, the session goes from the handshake straight to closed
\* with code 1008, and no container is created, no exec started and no
\* Destroy() called for it.
C18_BadSignatureClosesInHandshake ==
    (spc # "idle" /\ sinput.problemSignature
            # ProblemSignature(DaycareSecret, sinput.problemType, sinput.action)) =>
        /\ spc \in {"Handshake", "Closed"}
        /\ sbox = "none"
        /\ sdestroys = 0
        /\ sstep = 0
        /\ spc = "Closed" => (sclose.code = 1008 /\ sframes.wire = <<>>)

\* C18 witness: a bundle for a served problem type, signed with another
\* secret, has been refused
C18_Witness ==
    /\ spc = "Closed"
    /\ sclose.code = 1008
    /\ sinput.problemType = "python34unittest"
    /\ sinput.problemSignature
            = ProblemSignature(OtherSecret, sinput.problemType, sinput.action)
    /\ sbox = "none"

\* C19: in every row of problem_type_actions max_timeout is at most
\* max_session and max_cpu is at most max_timeout, so a session configured
\* from any row has a step deadline no later than its session deadline.
C19_LimitsOrdered ==
    /\ \A row \in tables.problem_type_actions :
            /\ row.max_timeout <= row.max_session
            /\ row.max_cpu <= row.max_timeout
    /\ tconfig.max_cpu <= tconfig.max_timeout
    /\ tconfig.max_timeout <= tconfig.max_session

\* C19 witness: the whole script has run and a session is configured from
\* a row whose three limits differ
C19_Witness ==
    /\ tnext > Len(Statements)
    /\ Cardinality(tables.problem_type_actions) = 59
    /\ tconfig.max_cpu < tconfig.max_timeout
    /\ tconfig.max_timeout < tconfig.max_session

\* C20 as claimed: for every target, call_function returns exactly when sp
\* and s0..s11 hold at target's return the values they held at its entry,
\* and otherwise writes the message and exits with status 1; on return a0
\* is target's return value and ra, s0..s11, gp, tp and sp are the caller's.
C20_ReturnsIffRegistersKept ==
    LET kept == \A r \in SRegs \cup {"sp"} : cfhist.exit[r] = cfhist.entry[r]
    IN  /\ cfpc \in {"2", "returned"} => kept
        /\ cfpc \in {"1", "exited"} => ~kept
        /\ cfpc = "exited" => (cfout.stderr = "bad_register_msg" /\ cfout.status = 1)
        /\ cfpc = "returned" =>
                /\ cregs.a0 = cfhist.exit.a0
                /\ \A r \in SRegs \cup {"ra", "gp", "tp", "sp"} :
                        cregs[r] = cfhist.caller[r]

\* C20 amended: the same, for a target that leaves call_function's stack
\* frame and the word saved_sp as they were when it was entered; once
\* call_function has exited it never returns.
C20_ReturnsIffRegistersKeptFrameIntact ==
    /\ [](( /\ cfpc \in {"1", "2", "exited", "returned"}
             /\ cmem = cfhist.mem
             /\ csaved = cfhist.saved ) => C20_ReturnsIffRegistersKept)
    /\ [][cfpc = "exited" => cfpc' = "exited"]_vars

\* C20 witness: target changed s11 only, left the frame alone, and
\* call_function has written the message and exited
C20_Witness ==
    /\ cfpc = "exited"
    /\ cfout.status = 1
    /\ cmem = cfhist.mem /\ csaved = cfhist.saved
    /\ cfhist.exit.sp = cfhist.entry.sp
    /\ cfhist.exit["s11"] # cfhist.entry["s11"]
    /\ \A r \in SRegs \ {"s11"} : cfhist.exit[r] = cfhist.entry[r]

\* C21: a daycare whose config file has no problem types or a capacity of
\* zero or less stops during setup and never builds a registration; every
\* registration a daycare sends has a capacity of at least 1 and a problem
\* type; and every registration in the TA's registry has capacity >= 1.
C21_CapacityPositive ==
    /\ (wconf.Capacity <= 0 \/ wconf.ProblemTypes = <<>>) =>
            (wrole \in {"setup", "fatal"} /\ wreg = NoReg /\ wcount = 0)
    /\ wreg # NoReg => (wreg.Capacity >= 1 /\ Len(wreg.ProblemTypes) >= 1)
    /\ \A h \in DOMAIN daycares : daycares[h].Capacity >= 1

\* C21 witness: the daycare is registered with its capacity, and a forged
\* copy of its registration with capacity zero has been refused
C21_Witness ==
    /\ ret.op = "POST (forged)"
    /\ ret.reg.Capacity = 0
    /\ ret.err = "signature mismatch"
    /\ "A" \in DOMAIN daycares
    /\ daycares["A"].Capacity = wconf.Capacity

\* C22: a call of Expire removes every entry whose age is greater than
\* 2*T_reg (20 s) and no other: an entry whose age is 20 s or less stays as
\* it is, and the call adds no entry.
C22_ExpireRemovesExactlyStale ==
    [][ret'.op = "Expire" =>
            /\ DOMAIN daycares' \subseteq DOMAIN daycares
            /\ \A h \in DOMAIN daycares :
                    IF now - daycares[h].Time > 20 * Second
                    THEN h \notin DOMAIN daycares'
                    ELSE h \in DOMAIN daycares' /\ daycares'[h] = daycares[h]]_vars

\* C22 witness: after an Expire the registry holds an entry whose age is
\* exactly 20 s
C22_Witness ==
    /\ ret.op = "Expire"
    /\ \E h \in DOMAIN daycares : now - daycares[h].Time = 20 * Second

\* C23: every stored registration has its problem types in ascending order,
\* so that the binary-search test of Assign agrees with membership in the
\* list, and an empty Version and Signature; an accepted registration is
\* stored with the TA's clock as its Time, whatever timestamp was sent, and an
\* Expire that follows at once removes nothing.
C23_StoredRegistrationsNormalized ==
    /\ [](\A h \in DOMAIN daycares :
            LET elt == daycares[h]
            IN  /\ \A i, j \in DOMAIN elt.ProblemTypes :
                        i < j => Rank(elt.ProblemTypes[i]) <= Rank(elt.ProblemTypes[j])
                /\ \A pt \in ProblemTypeNames : Eligible(elt, pt) <=> Serves(elt, pt)
                /\ elt.Version = "" /\ elt.Signature = <<>>)
    /\ [](Accepted => daycares[ret.reg.Hostname].Time = now)
    /\ [][(Accepted /\ ret'.op = "Expire") => daycares' = daycares]_vars

\* C23 witness: host A, which sends its list unsorted, is stored with the
\* list sorted and the TA's clock as Time, and an Expire has kept it
C23_Witness ==
    /\ ret.op = "Expire"
    /\ "A" \in DOMAIN daycares
    /\ lastAccepted["A"].Time = now
    /\ daycares["A"].ProblemTypes = <<"gounittest", "python34unittest">>
    /\ \A h \in DOMAIN daycares : daycares[h] = lastAccepted[h]

\* C24: the signature of a registration is the same for every order of its
\* problem-type list and for every time nearest to the same whole second,
\* and differs when the hostname, a problem type, the capacity, the nearest
\* whole second or the version is changed; the call leaves the list sorted,
\* with the same elements, and the other fields as they were.
C24_SignatureDependence ==
    ret.op = "Insert" =>
        LET reg == ret.reg
            S == DaycareSecret
            sig == ComputeSignature(reg, S)
            n == Len(reg.ProblemTypes)
            Nearest(t) == CHOOSE w \in {k * Second : k \in 0..(t \div Second + 1)} :
                              2 * (t - w) < Second /\ 2 * (w - t) <= Second
            after == AfterComputeSignature(reg)
        IN  /\ \A q \in [1..n -> 1..n] :
                    (\A i, j \in 1..n : i # j => q[i] # q[j]) =>
                        ComputeSignature([reg EXCEPT !.ProblemTypes = [i \in 1..n |-> reg.ProblemTypes[q[i]]]], S)
                            = sig
            /\ \A dt \in (0 - Second)..Second :
                    (ComputeSignature([reg EXCEPT !.Time = @ + dt], S) = sig)
                        <=> (Nearest(reg.Time + dt) = Nearest(reg.Time))
            /\ \A h \in Hosts \ {reg.Hostname} :
                    ComputeSignature([reg EXCEPT !.Hostname = h], S) # sig
            /\ \A i \in 1..n, pt \in ProblemTypeNames :
                    pt # reg.ProblemTypes[i] =>
                        ComputeSignature([reg EXCEPT !.ProblemTypes[i] = pt], S) # sig
            /\ \A pt \in ProblemTypeNames :
                    ComputeSignature([reg EXCEPT !.ProblemTypes = Append(@, pt)], S) # sig
            /\ \A cap \in 0..(MaxCapacity + 1) :
                    cap # reg.Capacity =>
                        ComputeSignature([reg EXCEPT !.Capacity = cap], S) # sig
            /\ \A v \in {CurrentVersion, OldVersion, EmptyString} \ {reg.Version} :
                    ComputeSignature([reg EXCEPT !.Version = v], S) # sig
            /\ \A i, j \in 1..n :
                    i < j => Rank(after.ProblemTypes[i]) <= Rank(after.ProblemTypes[j])
            /\ \A pt \in ProblemTypeNames :
                    Cardinality({i \in 1..n : after.ProblemTypes[i] = pt})
                        = Cardinality({i \in 1..n : reg.ProblemTypes[i] = pt})
            /\ [after EXCEPT !.ProblemTypes = reg.ProblemTypes] = reg

\* C24 witness: a registration whose list is not sorted and whose time is
\* not a whole second
C24_Witness ==
    /\ ret.op = "Insert"
    /\ ret.reg.ProblemTypes = <<"python34unittest", "gounittest">>
    /\ ret.reg.Time % Second # 0
    /\ ret.reg.Signature = ComputeSignature(ret.reg, DaycareSecret)

\* C25: on a registry whose capacities are all at least 1, Assign does not
\* return the internal error: for every iteration order of the first loop,
\* every pick below the total weight it sums and every iteration order of
\* the second loop, the second loop returns a host.
C25_WalkAlwaysFindsHost ==
    (ret.op = "Assign" /\ \A h \in DOMAIN daycares : daycares[h].Capacity >= 1) =>
        /\ ret.err # "failed to find daycare, please report this error"
        /\ \A order1 \in Orders(daycares), order2 \in Orders(daycares) :
                \A point \in 0..(TotalWeight(daycares, ret.pt, order1) - 1) :
                    LET r == Walk(daycares, ret.pt, order2, point, 0)
                    IN  r.err = NoError /\ r.host \in DOMAIN daycares

\* C25 witness: three hosts, one of which does not serve the type, and the
\* host returned is C
C25_Witness ==
    /\ ret.op = "Assign"
    /\ ret.err = NoError
    /\ ret.host = "C"
    /\ DOMAIN daycares = Hosts
    /\ \E h \in DOMAIN daycares : ~Serves(daycares[h], ret.pt)

\* how often a call appears in a log
Count(log, name) == Cardinality({i \in DOMAIN log : log[i] = name})

C27_DeleteGuarded_AsStated ==
    (rpc = "done" /\ rreq.route.method = "DELETE") =>
        /\ Count(rlog, "handler") > 0 =>
                rreq.session /\ rreq.load = "ok" /\ rreq.admin
        /\ (~rreq.session \/ rreq.load = "norows" \/ ~rreq.admin) =>
                /\ rstatus = 401
                /\ Count(rlog, "handler") = 0
                /\ rtx.state = "rolledback"

\* C27: on every DELETE route the handler runs only for a logged-in
\* administrator; for an unauthenticated request or a non-administrator the
\* handler is never invoked, the transaction is rolled back if one was
\* begun, and the response is 401 unless beginning the transaction or
\* loading the user's record failed, for which it is 500.
C27_DeleteGuarded ==
    (rpc = "done" /\ rreq.route.method = "DELETE") =>
        /\ Count(rlog, "handler") > 0 =>
                rreq.session /\ rreq.load = "ok" /\ rreq.admin
        /\ (~rreq.session \/ rreq.load = "norows" \/ ~rreq.admin) =>
                /\ Count(rlog, "handler") = 0
                /\ rtx.state \in {"rolledback", "failed"}
                /\ rtx.state = "rolledback" <=> Count(rlog, "tx.Rollback") = 1
                /\ Count(rlog, "tx.Commit") = 0
                /\ rstatus = IF rtx.state = "failed"
                                \/ (rreq.session /\ rreq.load = "dberror")
                             THEN 500 ELSE 401

\* C27 witness: a DELETE request of a logged-in user who is not an
\* administrator has been answered with 401 and rolled back
C27_Witness ==
    /\ rpc = "done"
    /\ rreq.route = Route("DELETE", "/v2/commits/:commit_id")
    /\ rreq.session /\ rreq.load = "ok" /\ ~rreq.admin
    /\ rstatus = 401
    /\ rlog = <<"withTx", "withCurrentUser", "administratorOnly", "tx.Rollback">>

\* the saved commit has a passed report card and a full score, and the
\* problem has a step after the commit's
AdvanceDue ==
    /\ gbundles.saved.reportCard = "passed"
    /\ gbundles.saved.score = 1
    /\ gbundles.saved.step + 1 \in ProblemSteps

\* the dotfile on disk holds the step after the one gather found
StepAdvanced == gdisk.dotfile.step = gdisk0.dotfile.step + 1

\* what the file operations made so far may be: deletions only of old-step
\* files in subdirectories, no root-level file gone, and the dotfile written
\* once, last, and after every file of the new step
AdvanceOrder ==
    /\ \A i \in DOMAIN gops :
            /\ gops[i][1] = "remove" =>
                    /\ Len(gops[i][2]) > 1
                    /\ gops[i][2] \in StepNames(gdisk0.dotfile.step)
            /\ gops[i][1] = "dotfile" =>
                    /\ i = Len(gops)
                    /\ \A name \in StepNames(gdisk0.dotfile.step + 1) :
                            \E j \in 1..(i - 1) : gops[j] = <<"write", name>>
    /\ \A name \in DOMAIN gdisk0.files : Len(name) = 1 => name \in DOMAIN gdisk.files
    /\ gdisk.dotfile # gdisk0.dotfile =>
            gops # <<>> /\ gops[Len(gops)] = <<"dotfile">>

\* the directory after an advance: the new step's files, every other file
\* as found except the old step's files in subdirectories, and the dotfile
\* with the next step and the new root-level files in its whitelist
AdvanceResult ==
    LET old == gdisk0.dotfile.step
        new == old + 1
        gone == {name \in StepNames(old) : Len(name) > 1} \ StepNames(new)
    IN  /\ gdisk.dotfile.step = new
        /\ gdisk.dotfile.whitelist =
                gdisk0.dotfile.whitelist \cup {name \in StepNames(new) : Len(name) = 1}
        /\ DOMAIN gdisk.files = (DOMAIN gdisk0.files \ gone) \cup StepNames(new)
        /\ \A name \in DOMAIN gdisk.files :
                gdisk.files[name] = IF name \in StepNames(new) THEN new
                                    ELSE gdisk0.files[name]

\* C28: the grade command advances the local step by one exactly when the
\* saved commit has a passed report card and a full score and the problem has
\* a next step; in every other outcome the dotfile and the files are left
\* unmodified; when it advances, only old-step files in subdirectories are
\* deleted, the new step's files are written, and the dotfile is written last.
C28_AdvanceIffPassed ==
    (gpc = "exit" /\ gdisk0 # NoDisk) =>
        /\ StepAdvanced <=> AdvanceDue
        /\ ~StepAdvanced => gdisk = gdisk0
        /\ StepAdvanced => AdvanceResult /\ AdvanceOrder

\* the characters of the digits i = top, top - 1, ..., 1 whose bit is set
RECURSIVE DigitsOfSet(_, _)
DigitsOfSet(set, top) ==
    IF top = 0 THEN <<>>
    ELSE (IF (set \div 2^top) % 2 = 1 THEN <<48 + top>> ELSE <<>>)
            \o DigitsOfSet(set, top - 1)

\* the characters of the decimal representation of n
RECURSIVE Decimal(_)
Decimal(n) ==
    IF n < 10 THEN <<48 + n>> ELSE Append(Decimal(n \div 10), 48 + (n % 10))

\* C29: print_set(set) makes one write to stdout, of the digits i in 9..1
\* whose bit i is set, in descending order, or of the single digit 0 if none
\* is set; bit 0 and the bits above 9 play no part; the bytes are the
\* decimal representation, without a leading zero, of the value handed to
\* print_n, which stores to and reads from its 16-byte buffer only and
\* leaves the return address saved by print_set intact.
C29_PrintSetDigits ==
    LET expected == DigitsOfSet(pout.set, 9)
    IN  /\ pout.stores \subseteq (-32)..(-17)
        /\ pout.loads \subseteq 48..57
        /\ Len(pout.writes) <= 1
        /\ ppc \in {"set.return", "done", "exit"} =>
                /\ Len(pout.writes) = 1
                /\ pout.writes[1].fd = 1
                /\ pout.writes[1].bytes = IF expected = <<>> THEN <<48>> ELSE expected
                /\ pout.writes[1].bytes = Decimal(pout.n)
                /\ Len(pout.writes[1].bytes) > 1 => pout.writes[1].bytes[1] # 48
                /\ LET masked == (pout.set % 2^10) - (pout.set % 2)
                   IN  pout.writes[1].bytes =
                            IF masked = 0 THEN <<48>> ELSE DigitsOfSet(masked, 9)
        /\ ppc = "done" => pout.ret = pout.ra /\ pregs.sp = 0

\* C29 witness: print_set has returned after writing 91 for a set with the
\* bits 30, 9 and 1
C29_Witness ==
    /\ ppc = "done"
    /\ pout.set = 2^30 + 2^9 + 2^1
    /\ pout.writes = <<[fd |-> 1, bytes |-> <<57, 49>>]>>

=============================================================================
